---------------------------- MODULE Spec2Model ----------------------------
(***************************************************************************)
(* Model of the shopify-auto-categorizer classification-and-sync engine:   *)
(*   - the product processor (createProductProcessor.processProduct),      *)
(*   - the throttled client (createShopifyService.schedule),               *)
(*   - the resource pager (createShopifyService.getAllProducts),           *)
(*   - the rule classifier and the model fallback (createCategorizer).     *)
(* Each subsystem has its own specification over the shared variables; the *)
(* variables of the other subsystems stay at their initial value.          *)
(***************************************************************************)
EXTENDS Integers, Sequences, FiniteSets, TLC

VARIABLES
    \* ---- remote product (Shopify side), namespace auto_ai ----
    stamp,        \* value of metafield last_processed_updated_at (NoStamp = absent)
    \* ---- one record per processProduct invocation ----
    pc,           \* position of the invocation in processProduct
    opt,          \* its arguments: product.updated_at and options.force
    idx,          \* index of the next base metafield to write (into BaseKeys)
    checkRead,    \* outcome of alreadyProcessed's read: "unread", "failed", "ok" (history)
    storedMatch,  \* the stamp on the remote equalled product.updated_at at that read (history)
    classified,   \* categorizer.categorize was invoked by this invocation (history)
    wlog,         \* the remote writes this invocation performed, in order (history)
    result,       \* what the invocation returned / threw
    before,       \* the invocations that had finished when this one started (history)
    invoked,      \* the command on whose behalf the processor is called, if any
    \* ---- throttled client: the Bottleneck limiter and the calls given to schedule ----
    timed,        \* whether this behaviour tracks the clock (fixed by the initial state)
    now,          \* the clock, in milliseconds
    nextStart,    \* earliest time the limiter launches its next job (last launch + minTime)
    laneQueue,    \* calls waiting in the limiter, in submission order
    running,      \* calls the limiter has launched and that have not settled
    jpc,          \* position of each call inside schedule's callback
    attempts,     \* how many times the call's operation fn was invoked (history)
    first,        \* status of the first attempt's outcome (history)
    second,       \* status of the second attempt's outcome (history)
    slept,        \* seconds the call slept before its re-attempt, Unset if it never slept (history)
    wakeAt,       \* when the retry sleep ends
    outcome,      \* status the call settled with: Ok, or the status of the error thrown
    sent,         \* the attempts sent to the remote, in order, each with its time (history, timed only)
    failedAt,     \* when the call's first attempt failed (history)
    hdr,          \* the retry-after header of the first attempt's response (history)
    \* ---- pager: getAllProducts ----
    listing,      \* the pages of the remote's listing served so far, each with products and a link header
    pgPc,         \* position of getAllProducts: idle, request, done, error
    url,          \* the url of the next list call
    served,       \* the pages the remote has served, in order (history)
    items,        \* the products accumulated so far
    listCalls,    \* number of list calls issued (history)
    \* ---- categorizer: categorize ----
    mapping,      \* the rule store's content as loadMapping returns it
    catProduct,   \* the product given to categorize
    openai,       \* whether a fallback model is configured
    catPc,        \* position of categorize: idle, asking, done, thrown
    ruleGuess,    \* the result of ruleBasedCategorize
    ruleThrew,    \* ruleBasedCategorize threw (history)
    modelCalls,   \* number of requests made to the fallback model (history)
    response,     \* the model's answer (history)
    catResult,    \* the classification categorize returned
    \* ---- payload of the product update: processProduct lines 45-65 ----
    payArgs,      \* the product's and the classification's fields, and the options
    payPc,        \* position: idle, start, built
    payload,      \* the payload built
    \* ---- command handler: one handleCommandRequest call ----
    batch,        \* the commands of the request
    dryRun,       \* the request's dryRun flag
    cmdPc,        \* position: idle, running, returned, rejected
    cmdIdx,       \* index of the command the loop is at
    results,      \* the result entries pushed so far
    caused,       \* what each command did: a set of effect kinds per command (history)
    \* ---- backfill jobs: the job table and each job's runner ----
    jobs,         \* the job table: the record of each job, NoJob while it does not exist
    rpc,          \* position of each runner: none, fetching, processing, ended
    products,     \* number of products the job's fetch returned
    processed,    \* the runner's counter of processed products
    handed,       \* the products given to processProduct, in order (history)
    settled,      \* number of processProduct calls that returned or threw (history)
    raised,       \* what raised the error that ended the runner: none, fetch, process (history)
    atReturn,     \* the job's record and its runner's progress when runBackfill returned (history)
    clock,        \* Date.now()
    listed,       \* what the latest list_jobs returned, and of which jobs (history)
    \* ---- webhook handler: one delivery ----
    guard,        \* the server skips the verification when no secret is configured
    secret,       \* whether the signing secret is configured
    hookReq,      \* the request: topic header, body, signature header
    hookPc,       \* position: idle, received, handled
    hookRes,      \* the response sent: none, 200, 401
    hookWork,     \* the processing started for the request: none, queued, running, ...
    hookCaused,   \* what the processing has done: remote calls, classifier calls (history)
    workAtResponse, \* state of the processing when the handler ended (history)
    \* ---- rule store: mapping.json, the module's cache, and the commands that edit it ----
    ruleFile,     \* the rules persisted in mapping.json, in order
    ruleCache,    \* the module-level cache of lib/mapping.js: loaded or not, and the rules
    edPc,         \* position of each edit command: idle, reading, writing, written, returned, failed
    edKind,       \* what the command is: add_rule or remove_rule
    edRead,       \* the rules the command read from the file
    \* ---- one product on the remote, the process calls on it and the other actors ----
    remote,       \* the product on the remote: its tags, its updated_at, its stamp
    runPc,        \* position of each process call: idle, fetched, classified, updated, done, skipped
    fetched,      \* the product each call was handed, its options and its classification
    lost,         \* tags that were on the remote when a process write removed them (history)
    clean,        \* a call has completed and no other actor has edited the product since (history)
    rewrote       \* non-forced calls that were handed the product while clean and wrote (history)

procVars == <<stamp, pc, opt, idx, checkRead, storedMatch, classified, wlog, result, before,
              invoked>>

laneVars == <<timed, now, nextStart, laneQueue, running, jpc, attempts, first, second,
              slept, wakeAt, outcome, sent, failedAt, hdr>>

pagerVars == <<listing, pgPc, url, served, items, listCalls>>

catVars == <<mapping, catProduct, openai, catPc, ruleGuess, ruleThrew, modelCalls, response,
             catResult>>

payVars == <<payArgs, payPc, payload>>

cmdVars == <<batch, dryRun, cmdPc, cmdIdx, results, caused>>

jobVars == <<jobs, rpc, products, processed, handed, settled, raised, atReturn, clock,
             listed>>

hookVars == <<guard, secret, hookReq, hookPc, hookRes, hookWork, hookCaused, workAtResponse>>

editVars == <<ruleFile, ruleCache, edPc, edKind, edRead>>
remoteVars == <<remote, runPc, fetched, lost, clean, rewrote>>

vars == <<procVars, laneVars, pagerVars, catVars, payVars, cmdVars, jobVars, hookVars,
         editVars, remoteVars>>

\* the variables of the other subsystems, which a subsystem's steps leave alone
procRest == <<laneVars, pagerVars, catVars, payVars, cmdVars, jobVars, hookVars,
    editVars, remoteVars>>
laneRest == <<procVars, pagerVars, catVars, payVars, cmdVars, jobVars, hookVars,
    editVars, remoteVars>>
pagerRest == <<procVars, laneVars, catVars, payVars, cmdVars, jobVars, hookVars,
    editVars, remoteVars>>
catRest == <<procVars, laneVars, pagerVars, payVars, cmdVars, jobVars, hookVars,
    editVars, remoteVars>>
payRest == <<procVars, laneVars, pagerVars, catVars, cmdVars, jobVars, hookVars,
    editVars, remoteVars>>
cmdRest == <<procVars, laneVars, pagerVars, catVars, payVars, jobVars, hookVars,
    editVars, remoteVars>>
jobRest == <<procVars, laneVars, pagerVars, catVars, payVars, cmdVars, hookVars,
    editVars, remoteVars>>
hookRest == <<procVars, laneVars, pagerVars, catVars, payVars, cmdVars, jobVars,
    editVars, remoteVars>>
editRest == <<procVars, laneVars, pagerVars, catVars, payVars, cmdVars, jobVars, hookVars,
    remoteVars>>
remoteRest == <<procVars, laneVars, pagerVars, catVars, payVars, cmdVars, jobVars, hookVars,
    editVars>>

-----------------------------------------------------------------------------
(* Bounds *)

\* number of processProduct invocations that may run (concurrently or in sequence)
MaxCalls == 2
\* number of distinct revision stamps (product.updated_at values)
MaxRev == 2

\* number of calls submitted to schedule by the producers
MaxJobs == 2
\* how many commands edit the rule store
MaxEdits == 3
\* how many process calls are made on the product
MaxRuns == 2
\* the remote's updated_at never passes this value
MaxRevision == 4
\* how many clock steps a timed behaviour of the lane takes
MaxTicks == 10

\* number of pages of the remote's listing
MaxPages == 4
\* number of rules in the rule store
MaxRules == 2

Calls == 1..MaxCalls
Revs == 1..MaxRev
Jobs == 1..MaxJobs

-----------------------------------------------------------------------------
(* Product processor: src/unnamed/part_005 (lib/processor.js) *)

NoStamp == 0          \* the metafield does not exist (getMetafield returns null)

StampKey == "last_processed_updated_at"

\* part_005:82-87, the six metafields written unconditionally, in source order
BaseKeys == <<"category_path", "ai_tags", "lang", "source", "method", "confidence">>

\* mutant: a title of exactly 40 characters counts as weak
needsSeoTitleInclusive(replaceSeo, clsHasTitle, curLen) ==
    (replaceSeo /\ clsHasTitle) \/ curLen = 0 \/ curLen <= 40

\* part_005:54,56
needsSeoTitle(replaceSeo, clsHasTitle, curLen) ==
    (replaceSeo /\ clsHasTitle) \/ curLen = 0 \/ curLen < 40

\* part_005:55,57
needsSeoDescription(replaceSeo, clsHasDesc, curLen) ==
    (replaceSeo /\ clsHasDesc) \/ curLen = 0 \/ curLen < 80

\* mutant: the comparison inverted (!== for ===)
alreadyProcessedInverted(metafield, updated_at) ==
    metafield # NoStamp /\ metafield # updated_at

\* part_005:5-8: metafield && metafield.value === product.updated_at
alreadyProcessed(metafield, updated_at) ==
    metafield # NoStamp /\ metafield = updated_at

\* mutant: a failed read yields the value last stored
getMetafieldStored(ok, stored) == stored

\* lib/mapping.js:77-82: a failed read is swallowed and yields null
getMetafield(ok, stored) == IF ok THEN stored ELSE NoStamp

\* lengths of the product's current SEO title / description that a call may see
TitleLens == {0, 10, 39, 40, 50}
DescLens == {0, 79, 80}

NoOpt == [rev |-> 0, force |-> FALSE]

\* no command: the processor is called by a webhook handler or a backfill
NoInvocation == [action |-> "none", force |-> "absent"]

\* the remote product may carry a stamp from an earlier run: the stamp lives on the
\* remote and survives restarts
ProcInit ==
    /\ stamp \in {NoStamp} \cup Revs
    /\ pc = [c \in Calls |-> "idle"]
    /\ opt = [c \in Calls |-> NoOpt]
    /\ idx = [c \in Calls |-> 0]
    /\ checkRead = [c \in Calls |-> "unread"]
    /\ storedMatch = [c \in Calls |-> FALSE]
    /\ classified = [c \in Calls |-> FALSE]
    /\ wlog = [c \in Calls |-> <<>>]
    /\ result = [c \in Calls |-> "none"]
    /\ before = [c \in Calls |-> {}]
    /\ invoked = NoInvocation

\* the processor before any call
ProcIdle ==
    /\ stamp = NoStamp
    /\ pc = [c \in Calls |-> "idle"]
    /\ opt = [c \in Calls |-> NoOpt]
    /\ idx = [c \in Calls |-> 0]
    /\ checkRead = [c \in Calls |-> "unread"]
    /\ storedMatch = [c \in Calls |-> FALSE]
    /\ classified = [c \in Calls |-> FALSE]
    /\ wlog = [c \in Calls |-> <<>>]
    /\ result = [c \in Calls |-> "none"]
    /\ before = [c \in Calls |-> {}]
    /\ invoked = NoInvocation

\* mutant: the catch block logs and does not rethrow (the call returns undefined)
onErrorSwallowed(c) ==
    /\ pc' = [pc EXCEPT ![c] = "done"]
    /\ result' = [result EXCEPT ![c] = "undefined"]

\* part_005:94-97: the catch block logs and rethrows
onError(c) ==
    /\ pc' = [pc EXCEPT ![c] = "done"]
    /\ result' = [result EXCEPT ![c] = "error"]

finish(c, r) ==
    /\ pc' = [pc EXCEPT ![c] = "done"]
    /\ result' = [result EXCEPT ![c] = r]

goto(c, label) ==
    /\ pc' = [pc EXCEPT ![c] = label]
    /\ UNCHANGED result

\* part_005:29-39: entry; a product without id returns undefined at once.
\* force is options.force: absent for webhook and backfill callers, set by
\* runReprocess and runManualSet.
Start(c) ==
    /\ pc[c] = "idle"
    /\ \/ /\ finish(c, "noid")
          /\ UNCHANGED opt
       \/ \E r \in Revs, force \in BOOLEAN :
            /\ opt' = [opt EXCEPT ![c] = [rev |-> r, force |-> force]]
            /\ goto(c, IF force THEN "classify" ELSE "check")
    /\ before' = [before EXCEPT ![c] = {d \in Calls : pc[d] = "done"}]
    /\ UNCHANGED <<stamp, idx, checkRead, storedMatch, classified, wlog>>
    /\ UNCHANGED invoked
    /\ UNCHANGED procRest

\* mutant: a call is also skipped while another call for the same revision is
\* past its check and not yet done
CheckStampExclusive(c) ==
    /\ pc[c] = "check"
    /\ \E ok \in BOOLEAN :
         LET metafield == getMetafield(ok, stamp) IN
         /\ checkRead' = [checkRead EXCEPT ![c] = IF ok THEN "ok" ELSE "failed"]
         /\ storedMatch' = [storedMatch EXCEPT ![c] = (stamp = opt[c].rev)]
         /\ IF \/ alreadyProcessed(metafield, opt[c].rev)
               \/ \E d \in Calls \ {c} :
                    /\ pc[d] \notin {"idle", "check", "done"}
                    /\ opt[d].rev = opt[c].rev
              THEN finish(c, "skipped")
              ELSE goto(c, "classify")
    /\ UNCHANGED <<stamp, opt, idx, classified, wlog, before>>
    /\ UNCHANGED invoked
    /\ UNCHANGED procRest

\* part_005:41-43: if (!force && await alreadyProcessed(product)) return skipped
CheckStamp(c) ==
    /\ pc[c] = "check"
    /\ \E ok \in BOOLEAN :
         LET metafield == getMetafield(ok, stamp) IN
         /\ checkRead' = [checkRead EXCEPT ![c] = IF ok THEN "ok" ELSE "failed"]
         /\ storedMatch' = [storedMatch EXCEPT ![c] = (stamp = opt[c].rev)]
         /\ IF alreadyProcessed(metafield, opt[c].rev)
              THEN finish(c, "skipped")
              ELSE goto(c, "classify")
    /\ UNCHANGED <<stamp, opt, idx, classified, wlog, before>>
    /\ UNCHANGED invoked
    /\ UNCHANGED procRest

\* part_005:45-78: the classification is options.classification when given (only
\* runManualSet gives it, together with force: true), else categorize(product),
\* which may throw; with options.dryRun the call returns before any write
Classify(c) ==
    /\ pc[c] = "classify"
    /\ \/ /\ classified' = [classified EXCEPT ![c] = TRUE]
          /\ \/ onError(c)
             \/ finish(c, "dryRun")
             \/ goto(c, "update")
       \/ /\ opt[c].force
          /\ invoked.action # "reprocess_product"   \* runReprocess passes only force
          /\ UNCHANGED classified
          /\ goto(c, "update")
    /\ UNCHANGED <<stamp, opt, idx, checkRead, storedMatch, wlog, before>>
    /\ UNCHANGED invoked
    /\ UNCHANGED procRest

\* lib/mapping.js:73-75: one remote call through schedule; it succeeds or throws
remoteWrite(c, key, next) ==
    \/ /\ wlog' = [wlog EXCEPT ![c] = Append(@, key)]
       /\ next
    \/ /\ onError(c)
       /\ UNCHANGED <<wlog, idx, stamp>>

\* mutant: the stamp is written before the product update and the metafields
UpdateProductAfterStamp(c) ==
    /\ pc[c] = "update"
    /\ remoteWrite(c, StampKey,
                   /\ stamp' = opt[c].rev
                   /\ goto(c, "meta")
                   /\ idx' = [idx EXCEPT ![c] = 1])
    /\ UNCHANGED <<opt, checkRead, storedMatch, classified, before>>
    /\ UNCHANGED invoked
    /\ UNCHANGED procRest

\* part_005:80: await shopify.updateProduct(product.id, payload)
UpdateProduct(c) ==
    /\ pc[c] = "update"
    /\ remoteWrite(c, "update",
                   /\ goto(c, "meta")
                   /\ idx' = [idx EXCEPT ![c] = 1]
                   /\ UNCHANGED stamp)
    /\ UNCHANGED <<opt, checkRead, storedMatch, classified, before>>
    /\ UNCHANGED invoked
    /\ UNCHANGED procRest

\* lib/mapping.js:84-100 setMetafield: the read of the existing metafield (a failed
\* read yields null) only selects the verb, PUT or POST; the write succeeds or throws.
\* part_005:82-87: the six unconditional metafields
SetBaseMetafield(c) ==
    /\ pc[c] = "meta"
    /\ remoteWrite(c, BaseKeys[idx[c]],
                   /\ IF idx[c] = Len(BaseKeys)
                        THEN goto(c, "seo_title") /\ idx' = [idx EXCEPT ![c] = 0]
                        ELSE goto(c, "meta") /\ idx' = [idx EXCEPT ![c] = @ + 1]
                   /\ UNCHANGED stamp)
    /\ UNCHANGED <<opt, checkRead, storedMatch, classified, before>>
    /\ UNCHANGED invoked
    /\ UNCHANGED procRest

\* part_005:88: if (needsSeoTitle) await setMetafield(id, 'seo_title', nextSeoTitle).
\* needsSeoTitle is a function of the call's arguments (part_005:49-56); they are
\* fixed for the call and first observed by the remote here.
SetSeoTitle(c) ==
    /\ pc[c] = "seo_title"
    /\ \E replaceSeo \in BOOLEAN, hasT \in BOOLEAN, tl \in TitleLens :
         IF needsSeoTitle(replaceSeo, hasT, tl)
           THEN remoteWrite(c, "seo_title",
                            goto(c, "seo_description") /\ UNCHANGED <<idx, stamp>>)
           ELSE goto(c, "seo_description") /\ UNCHANGED <<wlog, idx, stamp>>
    /\ UNCHANGED <<opt, checkRead, storedMatch, classified, before>>
    /\ UNCHANGED invoked
    /\ UNCHANGED procRest

\* part_005:89
SetSeoDescription(c) ==
    /\ pc[c] = "seo_description"
    /\ \E replaceSeo \in BOOLEAN, hasD \in BOOLEAN, dl \in DescLens :
         IF needsSeoDescription(replaceSeo, hasD, dl)
           THEN remoteWrite(c, "seo_description",
                            goto(c, "stamp") /\ UNCHANGED <<idx, stamp>>)
           ELSE goto(c, "stamp") /\ UNCHANGED <<wlog, idx, stamp>>
    /\ UNCHANGED <<opt, checkRead, storedMatch, classified, before>>
    /\ UNCHANGED invoked
    /\ UNCHANGED procRest

\* part_005:10-12, 91-93: markProcessed writes product.updated_at into the stamp
\* metafield; then the call returns { classification, payload, tags }
markProcessed(c) ==
    /\ pc[c] = "stamp"
    /\ remoteWrite(c, StampKey,
                   /\ stamp' = opt[c].rev
                   /\ finish(c, "processed")
                   /\ UNCHANGED idx)
    /\ UNCHANGED <<opt, checkRead, storedMatch, classified, before>>
    /\ UNCHANGED invoked
    /\ UNCHANGED procRest

processProduct(c) ==
    \/ Start(c)
    \/ CheckStamp(c)
    \/ Classify(c)
    \/ UpdateProduct(c)
    \/ SetBaseMetafield(c)
    \/ SetSeoTitle(c)
    \/ SetSeoDescription(c)
    \/ markProcessed(c)

ProcNext == \E c \in Calls : processProduct(c)

-----------------------------------------------------------------------------
(* Throttled client: src/lib/mapping.js:41-57 (lib/shopify.js)               *)
(* limiter = new Bottleneck({ minTime, maxConcurrent: 1 }); schedule(fn)     *)

\* lib/mapping.js:41
MaxConcurrent == 1
\* lib/mapping.js:28, milliseconds
MinTime == 400
\* lib/mapping.js:50, seconds
DefaultRetryAfter == 2
\* lib/mapping.js:51
MsPerSecond == 1000

Unset == -1           \* no outcome yet / header absent
Transport == 0        \* the operation threw with no err.response (network error, timeout)
Ok == 200             \* the operation resolved

\* statuses of the responses the remote API may give to one attempt
Statuses == {Ok, 400, 404, 422, 429, 500, 503}
Outcomes == Statuses \cup {Transport}
\* values of the retry-after header (seconds)
RetryAfterValues == {Unset, 1}

LaneIdle ==
    /\ timed = FALSE
    /\ now = 0
    /\ nextStart = 0
    /\ laneQueue = <<>>
    /\ running = {}
    /\ jpc = [j \in Jobs |-> "idle"]
    /\ attempts = [j \in Jobs |-> 0]
    /\ first = [j \in Jobs |-> Unset]
    /\ second = [j \in Jobs |-> Unset]
    /\ slept = [j \in Jobs |-> Unset]
    /\ wakeAt = [j \in Jobs |-> 0]
    /\ outcome = [j \in Jobs |-> Unset]
    /\ sent = <<>>
    /\ failedAt = [j \in Jobs |-> Unset]
    /\ hdr = [j \in Jobs |-> Unset]

LaneInit == LaneIdle

\* the attempts sent so far and one more, by call j now
record(j) == IF timed THEN Append(sent, [job |-> j, at |-> now]) ELSE sent

\* time guard; a behaviour that does not track the clock lets any amount of time pass
reached(t) == ~timed \/ now >= t
after(ms) == IF timed THEN now + ms ELSE 0

\* mutant: the limiter admits two jobs at a time
laneFreeTwo == Cardinality(running) < MaxConcurrent + 1

\* lib/mapping.js:41: maxConcurrent: 1
laneFree == Cardinality(running) < MaxConcurrent

\* mutant: every error status is retried
retryableAnyError(status) == status # Transport /\ status >= 400

\* lib/mapping.js:49: response && (response.status === 429 || response.status >= 500)
retryable(status) == status # Transport /\ (status = 429 \/ status >= 500)

\* mutant: no default delay, Number(header || 0)
retryDelayNoDefault(header) == IF header = Unset THEN 0 ELSE header

\* lib/mapping.js:50: Number(response.headers?.['retry-after'] || 2)
retryDelay(header) == IF header = Unset THEN DefaultRetryAfter ELSE header

settle(j, status) ==
    /\ jpc' = [jpc EXCEPT ![j] = "done"]
    /\ outcome' = [outcome EXCEPT ![j] = status]
    /\ running' = running \ {j}

\* lib/mapping.js:43-44: schedule(fn) hands the callback to limiter.schedule
Submit(j) ==
    /\ jpc[j] = "idle"
    /\ jpc' = [jpc EXCEPT ![j] = "queued"]
    /\ laneQueue' = Append(laneQueue, j)
    /\ UNCHANGED <<timed, now, nextStart, running, attempts, first, second, slept,
                   wakeAt, outcome, sent, failedAt, hdr>>
    /\ UNCHANGED laneRest

\* Bottleneck launches the oldest queued job when fewer than maxConcurrent jobs run
\* and minTime has passed since the last launch; lib/mapping.js:45-46: the callback
\* starts the first attempt, fn(...args)
Dispatch(j) ==
    /\ laneQueue # <<>> /\ j = Head(laneQueue)
    /\ laneFree
    /\ reached(nextStart)
    /\ laneQueue' = Tail(laneQueue)
    /\ running' = running \cup {j}
    /\ nextStart' = after(MinTime)
    /\ jpc' = [jpc EXCEPT ![j] = "attempt1"]
    /\ attempts' = [attempts EXCEPT ![j] = @ + 1]
    /\ sent' = record(j)
    /\ UNCHANGED <<timed, now, first, second, slept, wakeAt, outcome, failedAt, hdr>>
    /\ UNCHANGED laneRest

\* mutant: the call gives up its place in the lane while it waits to retry
FirstOutcomeReleasing(j) ==
    /\ jpc[j] = "attempt1"
    /\ \E status \in Outcomes, header \in RetryAfterValues :
         /\ header # Unset => retryable(status)
         /\ first' = [first EXCEPT ![j] = status]
         /\ hdr' = [hdr EXCEPT ![j] = header]
         /\ failedAt' = [failedAt EXCEPT ![j] = IF status = Ok THEN Unset ELSE now]
         /\ IF status = Ok
              THEN settle(j, Ok) /\ UNCHANGED <<slept, wakeAt>>
            ELSE IF retryable(status)
              THEN /\ slept' = [slept EXCEPT ![j] = retryDelay(header)]
                   /\ wakeAt' = [wakeAt EXCEPT ![j] = after(retryDelay(header) * MsPerSecond)]
                   /\ jpc' = [jpc EXCEPT ![j] = "sleeping"]
                   /\ running' = running \ {j}
                   /\ UNCHANGED outcome
              ELSE settle(j, status) /\ UNCHANGED <<slept, wakeAt>>
    /\ UNCHANGED <<timed, now, nextStart, laneQueue, attempts, second, sent>>
    /\ UNCHANGED laneRest

\* lib/mapping.js:46-55: the first attempt resolves, or throws: a retryable
\* status starts the sleep, anything else is rethrown
FirstOutcome(j) ==
    /\ jpc[j] = "attempt1"
    /\ \E status \in Outcomes, header \in RetryAfterValues :
         /\ header # Unset => retryable(status)      \* only 429 / 5xx carry the header
         /\ first' = [first EXCEPT ![j] = status]
         /\ hdr' = [hdr EXCEPT ![j] = header]
         /\ failedAt' = [failedAt EXCEPT ![j] = IF status = Ok THEN Unset ELSE now]
         /\ IF status = Ok
              THEN settle(j, Ok) /\ UNCHANGED <<slept, wakeAt>>
            ELSE IF retryable(status)
              THEN /\ slept' = [slept EXCEPT ![j] = retryDelay(header)]
                   /\ wakeAt' = [wakeAt EXCEPT ![j] = after(retryDelay(header) * MsPerSecond)]
                   /\ jpc' = [jpc EXCEPT ![j] = "sleeping"]
                   /\ UNCHANGED <<outcome, running>>
              ELSE settle(j, status) /\ UNCHANGED <<slept, wakeAt>>
    /\ UNCHANGED <<timed, now, nextStart, laneQueue, attempts, second, sent>>
    /\ UNCHANGED laneRest

\* lib/mapping.js:51-52: after the sleep the operation is invoked once more
Retry(j) ==
    /\ jpc[j] = "sleeping"
    /\ reached(wakeAt[j])
    /\ jpc' = [jpc EXCEPT ![j] = "attempt2"]
    /\ attempts' = [attempts EXCEPT ![j] = @ + 1]
    /\ sent' = record(j)
    /\ UNCHANGED <<timed, now, nextStart, laneQueue, running, first, second, slept,
                   wakeAt, outcome, failedAt, hdr>>
    /\ UNCHANGED laneRest

\* mutant: a retryable failure of the re-attempt is retried again
SecondOutcomeRetrying(j) ==
    /\ jpc[j] = "attempt2"
    /\ \E status \in Outcomes :
         /\ second' = [second EXCEPT ![j] = status]
         /\ IF retryable(status)
              THEN jpc' = [jpc EXCEPT ![j] = "sleeping"] /\ UNCHANGED <<outcome, running>>
              ELSE settle(j, status)
    /\ UNCHANGED <<timed, now, nextStart, laneQueue, attempts, first, slept, wakeAt,
                   sent, failedAt, hdr>>
    /\ UNCHANGED laneRest

\* lib/mapping.js:52: return await fn(...args) inside the catch block: the second
\* attempt's result or error is the call's
SecondOutcome(j) ==
    /\ jpc[j] = "attempt2"
    /\ \E status \in Outcomes :
         /\ second' = [second EXCEPT ![j] = status]
         /\ settle(j, status)
    /\ UNCHANGED <<timed, now, nextStart, laneQueue, attempts, first, slept, wakeAt,
                   sent, failedAt, hdr>>
    /\ UNCHANGED laneRest

schedule(j) ==
    \/ Submit(j)
    \/ Dispatch(j)
    \/ FirstOutcome(j)
    \/ Retry(j)
    \/ SecondOutcome(j)

LaneNext == \E j \in Jobs : schedule(j)

\* the clock advances in steps of half the minimum spacing, up to MaxTicks steps
TickMs == MinTime \div 2

\* the lane with the clock tracked
TimedLaneInit ==
    /\ timed = TRUE
    /\ now = 0
    /\ nextStart = 0
    /\ laneQueue = <<>>
    /\ running = {}
    /\ jpc = [j \in Jobs |-> "idle"]
    /\ attempts = [j \in Jobs |-> 0]
    /\ first = [j \in Jobs |-> Unset]
    /\ second = [j \in Jobs |-> Unset]
    /\ slept = [j \in Jobs |-> Unset]
    /\ wakeAt = [j \in Jobs |-> 0]
    /\ outcome = [j \in Jobs |-> Unset]
    /\ sent = <<>>
    /\ failedAt = [j \in Jobs |-> Unset]
    /\ hdr = [j \in Jobs |-> Unset]

\* time passes: timers (Bottleneck's minTime, the setTimeout of lib/mapping.js:51)
\* fire no earlier than their time, and a response takes any time to arrive
Pass ==
    /\ timed
    /\ now < MaxTicks * TickMs
    /\ now' = now + TickMs
    /\ UNCHANGED <<timed, nextStart, laneQueue, running, jpc, attempts, first, second,
                   slept, wakeAt, outcome, sent, failedAt, hdr>>
    /\ UNCHANGED laneRest

TimedLaneNext ==
    \/ \E j \in Jobs : schedule(j)
    \/ Pass

-----------------------------------------------------------------------------
(* Pager: src/lib/mapping.js:59-71 (lib/shopify.js getAllProducts)           *)
(*                                                                           *)
(* A link header is a sequence of characters.  "N" stands for the text       *)
(* rel="next", "P" for rel="previous", "U" for rel=next without quotes; "b"  *)
(* stands for the client's baseURL, "x" for another origin, "n" and "p" for  *)
(* the path and cursor of the following and the preceding page, "f" for the  *)
(* path of the first page.                                                   *)

Min(S) == CHOOSE m \in S : \A n \in S : m <= n

NoMatch == <<>>

\* index of the first ">" after position i, 0 if there is none
FirstClose(h, i) ==
    LET S == {j \in (i + 1)..Len(h) : h[j] = ">"}
    IN IF S = {} THEN 0 ELSE Min(S)

\* index of the first character at or after j that is not white space, 0 if none
AfterSpaces(h, j) ==
    LET S == {k \in j..Len(h) : h[k] # " "}
    IN IF S = {} THEN 0 ELSE Min(S)

\* lib/mapping.js:66: the pattern /<([^>]+)>;\s*rel="next"/ tried at position i
MatchAt(h, i) ==
    /\ h[i] = "<"
    /\ LET j == FirstClose(h, i)
       IN /\ j > i + 1
          /\ j + 1 <= Len(h)
          /\ h[j + 1] = ";"
          /\ LET k == AfterSpaces(h, j + 2)
             IN k # 0 /\ h[k] = "N"

\* mutant: the pattern anchored at the start of the header
matchAnchored(h) ==
    IF h # <<>> /\ MatchAt(h, 1) THEN SubSeq(h, 2, FirstClose(h, 1) - 1) ELSE NoMatch

\* lib/mapping.js:66: linkHeader.match(...): the leftmost match's group 1, or null
match(h) ==
    LET S == {i \in 1..Len(h) : MatchAt(h, i)}
    IN IF S = {} THEN NoMatch ELSE SubSeq(h, Min(S) + 1, FirstClose(h, Min(S)) - 1)

\* lib/mapping.js:68: match[1].replace(baseURL, ''): the first occurrence is removed
replace(u, base) ==
    LET S == {i \in 1..Len(u) : u[i] = base}
    IN IF S = {} THEN u
       ELSE SubSeq(u, 1, Min(S) - 1) \o SubSeq(u, Min(S) + 1, Len(u))

\* lib/mapping.js:65: res.headers.link || ''
linkHeader(res) == IF res.link.present THEN res.link.value ELSE <<>>

\* the page a url designates when the last page served was `current`; 0 when the
\* url designates no page of the listing
target(u, current) ==
    IF u = <<"f">> THEN 1
    ELSE IF u \in {<<"n">>, <<"x", "n">>} THEN current + 1
    ELSE IF u \in {<<"p">>, <<"x", "p">>} THEN current - 1
    ELSE 0

\* values of the link header
LinkValues ==
    { <<>>,
      <<"<", "b", "n", ">", ";", " ", "N">>,
      <<"<", "b", "p", ">", ";", " ", "P", ",", " ", "<", "b", "n", ">", ";", " ", "N">>,
      <<"<", "b", "p", ">", ";", " ", "P">>,
      <<"<", "n", ">", ";", "N">>,
      <<"<", "x", "n", ">", ";", " ", " ", "N">>,
      <<"b", "n", ";", " ", "N">>,
      <<"<", ">", ";", " ", "N">>,
      <<"<", "b", "n", ">", " ", "N">>,
      <<"<", "b", "n", ">", ";", " ", "U">>,
      <<"<", "b", "n", ";", " ", "N">> }

Links == {[present |-> FALSE, value |-> <<>>]} \cup
         {[present |-> TRUE, value |-> v] : v \in LinkValues}

\* the products of page i: ids that tell the page and the position
ProductsOf(i) == <<10 * i + 1, 10 * i + 2>>

\* what page i of the remote's listing may be: its products, or none, and a link
\* header
PagesAt(i) == [products : {<<>>, ProductsOf(i)}, link : Links]

\* the remote's pages become known as they are served
PagerInit ==
    /\ listing = <<>>
    /\ pgPc = "idle"
    /\ url = <<>>
    /\ served = <<>>
    /\ items = <<>>
    /\ listCalls = 0

\* lib/mapping.js:60-61: items = [], url = the first page's path
PagerStart ==
    /\ pgPc = "idle"
    /\ pgPc' = "request"
    /\ url' = <<"f">>
    /\ items' = <<>>
    /\ UNCHANGED <<listing, served, listCalls>>
    /\ UNCHANGED pagerRest

\* lib/mapping.js:63: await schedule(() => client.get(url)) throws: the request
\* failed, or the url designates no page; getAllProducts rejects
ListCallFails ==
    /\ pgPc = "request"
    /\ listCalls' = listCalls + 1
    /\ pgPc' = "error"
    /\ UNCHANGED <<listing, url, served, items>>
    /\ UNCHANGED pagerRest

\* lib/mapping.js:62-69: one turn of the loop with a successful list call: the
\* remote serves the page the url designates, a page of its listing of at most
\* MaxPages pages
ListCall ==
    /\ pgPc = "request"
    /\ LET page == target(url, IF served = <<>> THEN 0 ELSE served[Len(served)])
       IN /\ page \in 1..MaxPages
          /\ page <= Len(listing) + 1
          /\ \E res \in IF page <= Len(listing) THEN {listing[page]} ELSE PagesAt(page) :
                LET m == match(linkHeader(res))
                IN /\ listing' = IF page <= Len(listing) THEN listing
                                 ELSE Append(listing, res)
                   /\ listCalls' = listCalls + 1
                   /\ served' = Append(served, page)
                   /\ items' = items \o res.products
                   /\ IF m = NoMatch
                        THEN pgPc' = "done" /\ UNCHANGED url
                        ELSE pgPc' = "request" /\ url' = replace(m, "b")
    /\ UNCHANGED pagerRest

getAllProducts ==
    \/ PagerStart
    \/ ListCall
    \/ ListCallFails

PagerNext == getAllProducts

-----------------------------------------------------------------------------
(* Categorizer: src/lib/categorizer.js                                        *)
(*                                                                            *)
(* A JavaScript value is a record: its type, and its content in the field of  *)
(* that type.  A string is a sequence of tokens: words, the separators ">",   *)
(* "," and the markup tags "<p>", "</p>"; white space between tokens is       *)
(* implicit.  Numbers that stand for confidences are hundredths.              *)

Undef == [type |-> "undefined", s |-> <<>>, n |-> 0, a |-> <<>>]
Str(x) == [type |-> "string", s |-> x, n |-> 0, a |-> <<>>]
Num(k) == [type |-> "number", s |-> <<>>, n |-> k, a |-> <<>>]
Arr(x) == [type |-> "array", s |-> <<>>, n |-> 0, a |-> x]

\* truthiness of a value: undefined, '' and 0 are falsy, arrays are truthy
Truthy(v) ==
    CASE v.type = "string" -> v.s # <<>>
      [] v.type = "number" -> v.n # 0
      [] v.type = "array" -> TRUE
      [] OTHER -> FALSE

\* a || b
Or(a, b) == IF Truthy(a) THEN a ELSE b

Max(S) == CHOOSE m \in S : \A n \in S : m >= n

\* categorizer.js:3
DEFAULT_FALLBACK == Str(<<"Miscellaneous">>)

\* categorizer.js:5
STOPWORDS == {"the", "and", "with", "for", "gift", "size", "set", "kit", "new"}

\* categorizer.js:26, hundredths
DefaultRuleConfidence == 92
\* categorizer.js:88
CatchAllConfidence == 40
\* categorizer.js:107
DefaultConfidence == 80
\* categorizer.js:156
ModelConfidence == 85
\* categorizer.js:169
Threshold == 80

\* String.prototype.toLowerCase on one token, and on a string
Lower(w) ==
    CASE w = "SHOE" -> "shoe"
      [] w = "Nike" -> "nike"
      [] w = "Sale" -> "sale"
      [] w = "Shoes" -> "shoes"
      [] w = "Lamps" -> "lamps"
      [] w = "Lamp" -> "lamp"
      [] w = "Home" -> "home"
      [] w = "Brand" -> "brand"
      [] w = "Best" -> "best"
      [] w = "Apparel" -> "apparel"
      [] w = "Footwear" -> "footwear"
      [] w = "Everything" -> "everything"
      [] w = "Sizes" -> "sizes"
      [] w = "Garden" -> "garden"
      [] w = "Other" -> "other"
      [] w = "Miscellaneous" -> "miscellaneous"
      [] w = "Gift" -> "gift"
      [] w = "Serum" -> "serum"
      [] w = "SERUM" -> "serum"
      [] w = "Brightening" -> "brightening"
      [] OTHER -> w

toLowerCase(str) == [i \in 1..Len(str) |-> Lower(str[i])]

IsTag(w) == w \in {"<p>", "</p>"}

\* categorizer.js:32-34: markup removed, white space collapsed and trimmed
normalizeText(v) ==
    LET str == IF Truthy(v) THEN v.s ELSE <<>>
    IN SelectSeq(str, LAMBDA w : ~IsTag(w))

\* categorizer.js:36-42
tokenize(str) ==
    SelectSeq(toLowerCase(str), LAMBDA t : t \notin STOPWORDS /\ t \notin {">", ","})

\* the text after the last ">": category.split('>').pop().trim()
Leaf(str) ==
    LET S == {i \in 1..Len(str) : str[i] = ">"}
    IN IF S = {} THEN str ELSE SubSeq(str, Max(S) + 1, Len(str))

\* str.split(',').map(t => t.trim()).filter(Boolean)
RECURSIVE SplitComma(_)
SplitComma(str) ==
    IF str = <<>> THEN <<>>
    ELSE LET S == {i \in 1..Len(str) : str[i] = ","}
         IN IF S = {} THEN <<str>>
            ELSE (IF Min(S) = 1 THEN <<>> ELSE <<SubSeq(str, 1, Min(S) - 1)>>)
                 \o SplitComma(SubSeq(str, Min(S) + 1, Len(str)))

\* categorizer.js:44-54; category is a string here (see finalizeResult).  The
\* products drawn have titles shorter than the 62/80/155 character cuts.
buildSeo(product, category) ==
    LET brand == IF Truthy(product.vendor) THEN product.vendor.s ELSE <<"Brand">>
        title == normalizeText(product.title)
        leaf == Leaf(category)
        core == IF title # <<>> THEN title ELSE leaf
    IN [brand |-> brand,
        core |-> core,
        seoTitle |-> brand \o core,
        seoDescription |-> <<"Discover">> \o core \o <<"from">> \o brand
                           \o <<"Shop">> \o toLowerCase(leaf)]

\* categorizer.js:61-68: blanks dropped, duplicates dropped without regard to case
RECURSIVE Unique(_, _, _)
Unique(candidates, i, unique) ==
    IF i > Len(candidates) THEN unique
    ELSE LET value == candidates[i]
         IN IF value = <<>> \/ \E j \in 1..Len(unique) :
                                   toLowerCase(unique[j]) = toLowerCase(value)
              THEN Unique(candidates, i + 1, unique)
              ELSE Unique(candidates, i + 1, Append(unique, value))

Slice(seq, n) == SubSeq(seq, 1, IF Len(seq) < n THEN Len(seq) ELSE n)

\* categorizer.js:56-70
composeTags(product, category, extraTags) ==
    LET seo == buildSeo(product, category)
        tokens == Slice(tokenize(seo.core), 10)
        candidates == <<seo.brand, Leaf(category)>> \o extraTags
                      \o [i \in 1..Len(tokens) |-> <<tokens[i]>>]
    IN Slice(Unique(candidates, 1, <<>>), 12)

NoClass == [category_path |-> Undef, tags |-> <<>>, seo_title |-> Undef,
            seo_description |-> Undef, confidence |-> Undef, method |-> "none"]

\* the two ways a function ends: it throws, or it returns a value
Threw == [threw |-> TRUE, value |-> NoClass]
Returned(v) == [threw |-> FALSE, value |-> v]

\* categorizer.js:93-110; category.split (lines 47, 50 and 59) is a TypeError when
\* the category is a truthy value that is not a string
finalizeResult(product, res) ==
    LET category == Or(res.category_path, DEFAULT_FALLBACK)
        extras == IF res.tags.type = "array" THEN res.tags.a
                  ELSE IF res.tags.type = "string" THEN SplitComma(res.tags.s)
                  ELSE <<>>
    IN IF category.type # "string" THEN Threw
       ELSE LET seo == buildSeo(product, category.s)
            IN Returned([category_path |-> category,
                         tags |-> composeTags(product, category.s, extras),
                         seo_title |-> Or(res.seo_title, Str(seo.seoTitle)),
                         seo_description |-> Or(res.seo_description,
                                                Str(seo.seoDescription)),
                         confidence |-> IF res.confidence.type = "undefined"
                                          THEN Num(DefaultConfidence)
                                          ELSE res.confidence,
                         method |-> res.method])

\* A regular expression source is a string whose tokens are words and the
\* metacharacters ( ) | . *
Meta == {"(", ")", "|", ".", "*"}

RECURSIVE Balanced(_, _, _)
Balanced(src, i, depth) ==
    IF i > Len(src) THEN depth = 0
    ELSE IF src[i] = "(" THEN Balanced(src, i + 1, depth + 1)
    ELSE IF src[i] = ")" THEN depth > 0 /\ Balanced(src, i + 1, depth - 1)
    ELSE Balanced(src, i + 1, depth)

NothingToRepeat(src) ==
    \E i \in 1..Len(src) : src[i] = "*" /\ (i = 1 \/ src[i - 1] \in {"(", "|", "*"})

\* new RegExp(source, 'i') returns; otherwise it throws a SyntaxError
\* (unterminated group, unmatched ')', nothing to repeat)
Compiles(src) == Balanced(src, 1, 0) /\ ~NothingToRepeat(src)

\* pattern.test(haystack) for a compiled source; the sources drawn are alternations
\* of single words and of .*, with or without a group around them
RegexTest(src, haystack) ==
    \/ \E i \in 1..(Len(src) - 1) : src[i] = "." /\ src[i + 1] = "*"
    \/ \E i \in 1..Len(src), k \in 1..Len(haystack) :
          src[i] \notin Meta /\ Lower(src[i]) = haystack[k]

\* haystack contains the string, without regard to case
Contains(haystack, str) ==
    \E i \in 1..(Len(haystack) - Len(str) + 1) :
        SubSeq(haystack, i, i + Len(str) - 1) = toLowerCase(str)

\* (rule.keywords || []).filter(Boolean), categorizer.js:15
keywordsOf(rule) == SelectSeq(rule.keywords, Truthy)

\* categorizer.js:16-20: building the rule's pattern throws: new RegExp on an
\* invalid source, or escapeRegex (str.replace) on a keyword that is not a string
ruleThrows(rule) ==
    IF Truthy(rule.regex) THEN ~Compiles(rule.regex.s)
    ELSE \E i \in 1..Len(keywordsOf(rule)) : keywordsOf(rule)[i].type # "string"

\* categorizer.js:16-20 and 76: the rule's pattern tested on the haystack
patternTest(rule, haystack) ==
    IF Truthy(rule.regex) THEN RegexTest(rule.regex.s, haystack)
    ELSE IF keywordsOf(rule) # <<>>
      THEN \E i \in 1..Len(keywordsOf(rule)) : Contains(haystack, keywordsOf(rule)[i].s)
      ELSE TRUE

\* categorizer.js:11-30: buildRules throws when one rule's pattern cannot be built
buildRulesThrows(m) == \E i \in 1..Len(m.rules) : ruleThrows(m.rules[i])

\* categorizer.js:74
haystackOf(product) ==
    toLowerCase(normalizeText(product.title) \o normalizeText(product.vendor)
                \o normalizeText(product.body_html))

Matching(m, product) ==
    {i \in 1..Len(m.rules) : patternTest(m.rules[i], haystackOf(product))}

\* mutant: the loop keeps going and the last matching rule decides
selectRuleLast(matching) == Max(matching)

\* categorizer.js:75-76: the loop returns at the first rule whose pattern matches
selectRule(matching) == Min(matching)

\* categorizer.js:72-91
ruleBasedCategorize(m, product) ==
    IF buildRulesThrows(m) THEN Threw
    ELSE IF Matching(m, product) # {}
      THEN LET rule == m.rules[selectRule(Matching(m, product))]
           IN finalizeResult(product,
                 [category_path |-> rule.category,
                  tags |-> Arr(rule.tags),
                  seo_title |-> Undef,
                  seo_description |-> Undef,
                  confidence |-> Or(rule.confidence, Num(DefaultRuleConfidence)),
                  method |-> "rules"])
      ELSE finalizeResult(product,
                 [category_path |-> Or(m.fallback_category, DEFAULT_FALLBACK),
                  tags |-> Arr(<<>>),
                  seo_title |-> Undef,
                  seo_description |-> Undef,
                  confidence |-> Num(CatchAllConfidence),
                  method |-> "fallback"])

\* categorizer.js:130-162: the result of askOpenAI for one model response, null
\* when the request throws, the content is no JSON, or the content is the JSON
\* null (reading parsed.category_path throws inside the try)
askOpenAIIsNull(resp) == resp.kind \in {"throws", "not_json", "json_null"}

\* mutant: the SEO title is taken from the model's output alone
askOpenAITitleAsGiven(resp, guess) ==
    LET parsed == resp
        tags == IF parsed.ai_tags.type = "array" THEN parsed.ai_tags.a
                ELSE IF parsed.ai_tags.type = "string" THEN SplitComma(parsed.ai_tags.s)
                ELSE <<>>
    IN [category_path |-> Or(Or(parsed.category_path, parsed.category),
                             guess.category_path),
        tags |-> Arr(IF tags # <<>> THEN tags ELSE guess.tags),
        seo_title |-> parsed.seo_title,
        seo_description |-> Or(parsed.seo_description, guess.seo_description),
        confidence |-> Or(parsed.confidence, Num(ModelConfidence)),
        method |-> "openai"]

\* categorizer.js:145-158
askOpenAI(resp, guess) ==
    LET parsed == resp
        tags == IF parsed.ai_tags.type = "array" THEN parsed.ai_tags.a
                ELSE IF parsed.ai_tags.type = "string" THEN SplitComma(parsed.ai_tags.s)
                ELSE <<>>
    IN [category_path |-> Or(Or(parsed.category_path, parsed.category),
                             guess.category_path),
        tags |-> Arr(IF tags # <<>> THEN tags ELSE guess.tags),
        seo_title |-> Or(parsed.seo_title, guess.seo_title),
        seo_description |-> Or(parsed.seo_description, guess.seo_description),
        confidence |-> Or(parsed.confidence, Num(ModelConfidence)),
        method |-> "openai"]

\* mutant: the gate compares with > instead of >=
clearsThresholdStrictly(confidence) == confidence.n > Threshold

\* categorizer.js:169: ruleGuess.confidence >= 0.8
clearsThreshold(confidence) == confidence.n >= Threshold

\* ---- the inputs ----

\* the rules the rule store may hold; add_rule (lib/mapping.js:339-358) stores
\* name, category, keywords, regex, tags and confidence as given
RuleSet ==
    { [category |-> Str(<<"Apparel", ">", "Shoes">>), regex |-> Undef,
       keywords |-> <<Str(<<"shoe">>)>>, tags |-> <<<<"Footwear">>>>, confidence |-> Undef],
      [category |-> Str(<<"Home", ">", "Lamps">>), regex |-> Str(<<"lamp", "|", "desk">>),
       keywords |-> <<>>, tags |-> <<>>, confidence |-> Num(79)],
      [category |-> Str(<<"Shoes">>), regex |-> Str(<<"(", "shoe", ")">>),
       keywords |-> <<>>, tags |-> <<<<"Sale">>>>, confidence |-> Num(80)],
      [category |-> Str(<<"Everything">>), regex |-> Undef,
       keywords |-> <<>>, tags |-> <<>>, confidence |-> Num(81)],
      [category |-> Str(<<"Shoes">>), regex |-> Str(<<"(", "shoe">>),
       keywords |-> <<>>, tags |-> <<>>, confidence |-> Undef],
      [category |-> Str(<<"Sizes">>), regex |-> Undef,
       keywords |-> <<Num(7)>>, tags |-> <<>>, confidence |-> Undef],
      [category |-> Num(5), regex |-> Undef,
       keywords |-> <<Str(<<"lamp">>)>>, tags |-> <<>>, confidence |-> Num(50)],
      [category |-> Str(<<"Apparel">>), regex |-> Undef,
       keywords |-> <<Str(<<>>), Num(0), Str(<<"SHOE">>)>>, tags |-> <<>>,
       confidence |-> Num(0)],
      [category |-> Str(<<"Lamps">>), regex |-> Undef,
       keywords |-> <<Str(<<"lamp">>)>>, tags |-> <<>>, confidence |-> Num(150)],
      \* add_rule with a category alone, with a low confidence, with a number as category
      [category |-> Str(<<"Misc">>), regex |-> Undef,
       keywords |-> <<>>, tags |-> <<>>, confidence |-> Undef],
      [category |-> Str(<<"Misc">>), regex |-> Undef,
       keywords |-> <<>>, tags |-> <<>>, confidence |-> Num(50)],
      [category |-> Num(7), regex |-> Undef,
       keywords |-> <<>>, tags |-> <<>>, confidence |-> Undef] }

Mappings ==
    UNION { [rules : [1..n -> RuleSet],
             fallback_category : {Undef, Str(<<"Other">>)}] : n \in 0..MaxRules }

\* products as the remote serves them: title, vendor and body_html are strings,
\* or missing
Products ==
    [title : {Undef, Str(<<>>), Str(<<"SHOE">>), Str(<<"lamp">>)},
     vendor : {Undef, Str(<<"Nike">>)},
     body_html : {Undef, Str(<<"<p>", "shoe", "</p>">>)}]

NoResponse == [kind |-> "none", category_path |-> Undef, category |-> Undef,
               ai_tags |-> Undef, seo_title |-> Undef, seo_description |-> Undef,
               confidence |-> Undef]

\* what the model may answer: the request throws; no content; text that is no
\* JSON; the JSON null; a JSON array; a JSON object with any of the fields
Responses ==
    { [NoResponse EXCEPT !.kind = k] :
          k \in {"throws", "no_content", "not_json", "json_null", "json_array"} }
    \cup
    [kind : {"object"},
     category_path : {Undef, Str(<<>>), Str(<<"Home", ">", "Lamps">>), Num(42),
                      Arr(<<<<"Home">>, <<"Lamps">>>>)},
     category : {Undef, Str(<<"Garden">>)},
     ai_tags : {Undef, Arr(<<<<"Sale">>, <<"sale">>>>), Str(<<"Sale", ",", "Nike">>)},
     seo_title : {Undef, Str(<<"Best", "Lamp">>)},
     seo_description : {Undef},
     confidence : {Undef, Num(95)}]

NoProduct == [title |-> Undef, vendor |-> Undef, body_html |-> Undef]

CatIdle ==
    /\ mapping = [rules |-> <<>>, fallback_category |-> Undef]
    /\ catProduct = NoProduct
    /\ openai = FALSE
    /\ catPc = "idle"
    /\ ruleGuess = NoClass
    /\ ruleThrew = FALSE
    /\ modelCalls = 0
    /\ response = NoResponse
    /\ catResult = NoClass

\* categorizer.js:165: openai is the configured model client, or absent
CatInit ==
    /\ mapping \in Mappings
    /\ catProduct \in Products
    /\ openai \in BOOLEAN
    /\ catPc = "idle"
    /\ ruleGuess = NoClass
    /\ ruleThrew = FALSE
    /\ modelCalls = 0
    /\ response = NoResponse
    /\ catResult = NoClass

\* categorizer.js:168-172: the rule guess; it is returned when no model is
\* configured or its confidence clears the threshold, else the model is asked.
\* An error thrown by ruleBasedCategorize rejects categorize.
RuleGuess ==
    /\ catPc = "idle"
    /\ LET guess == ruleBasedCategorize(mapping, catProduct)
       IN IF guess.threw
            THEN /\ catPc' = "thrown"
                 /\ ruleThrew' = TRUE
                 /\ UNCHANGED <<ruleGuess, modelCalls, catResult>>
            ELSE /\ ruleGuess' = guess.value
                 /\ UNCHANGED ruleThrew
                 /\ IF ~openai \/ clearsThreshold(guess.value.confidence)
                      THEN /\ catPc' = "done"
                           /\ catResult' = guess.value
                           /\ UNCHANGED modelCalls
                      ELSE /\ catPc' = "asking"
                           /\ modelCalls' = modelCalls + 1
                           /\ UNCHANGED catResult
    /\ UNCHANGED <<mapping, catProduct, openai, response>>
    /\ UNCHANGED catRest

\* categorizer.js:172-173: the model's answer; null gives the rule guess, anything
\* else goes through finalizeResult, outside any try
ModelAnswers ==
    /\ catPc = "asking"
    /\ \E resp \in Responses :
         /\ response' = resp
         /\ IF askOpenAIIsNull(resp)
              THEN catPc' = "done" /\ catResult' = ruleGuess
              ELSE LET final == finalizeResult(catProduct, askOpenAI(resp, ruleGuess))
                   IN IF final.threw
                        THEN catPc' = "thrown" /\ UNCHANGED catResult
                        ELSE catPc' = "done" /\ catResult' = final.value
    /\ UNCHANGED <<mapping, catProduct, openai, ruleGuess, ruleThrew, modelCalls>>
    /\ UNCHANGED catRest

categorize ==
    \/ RuleGuess
    \/ ModelAnswers

CatNext == categorize

-----------------------------------------------------------------------------
(* Payload of the product update: src/unnamed/part_005 (lib/processor.js)  *)
(* lines 14-27 and 45-65.  In a tag the white space is explicit: the token *)
(* " " is a run of white space.  An SEO text is a prefix of a named text,  *)
(* given by the text's name and the prefix's length.                       *)

\* part_005:26
TagCap == 25
\* part_005:51
TitleCap == 70
\* part_005:52
DescriptionCap == 320

\* longest list of pairwise distinct tags a product or a classification carries
MaxTags == 26

\* String.prototype.trim
RECURSIVE trim(_)
trim(str) ==
    IF str = <<>> THEN str
    ELSE IF Head(str) = " " THEN trim(Tail(str))
    ELSE IF str[Len(str)] = " " THEN trim(SubSeq(str, 1, Len(str) - 1))
    ELSE str

\* String.prototype.split(','): the pieces between the commas, empty ones included
RECURSIVE split(_)
split(str) ==
    LET S == {i \in 1..Len(str) : str[i] = ","}
    IN IF S = {} THEN <<str>>
       ELSE <<SubSeq(str, 1, Min(S) - 1)>> \o split(SubSeq(str, Min(S) + 1, Len(str)))

\* Array.prototype.join(', ')
RECURSIVE join(_)
join(list) ==
    IF list = <<>> THEN <<>>
    ELSE IF Len(list) = 1 THEN list[1]
    ELSE list[1] \o <<",", " ">> \o join(Tail(list))

\* part_005:46: (product.tags || '').split(',').map(t => t.trim()).filter(Boolean)
existingTagsOf(tags) ==
    LET pieces == split(IF Truthy(tags) THEN tags.s ELSE <<>>)
        trimmed == [i \in 1..Len(pieces) |-> trim(pieces[i])]
    IN SelectSeq(trimmed, LAMBDA t : t # <<>>)

\* part_005:19: (tag || '').toString().trim()
tagValue(tag) ==
    IF ~Truthy(tag) THEN <<>>
    ELSE IF tag.type = "string" THEN trim(tag.s)
    ELSE <<ToString(tag.n)>>

\* mutant: the key is the value itself (no toLowerCase)
tagKeyCaseSensitive(value) == value

\* part_005:21
tagKey(value) == toLowerCase(value)

\* part_005:18-25, the loop over the pool from position i on
RECURSIVE mergeLoop(_, _, _)
mergeLoop(pool, i, tags) ==
    IF i > Len(pool) THEN tags
    ELSE LET value == tagValue(pool[i])
         IN IF value = <<>> \/ \E j \in 1..Len(tags) : tagKey(tags[j]) = tagKey(value)
              THEN mergeLoop(pool, i + 1, tags)
              ELSE mergeLoop(pool, i + 1, Append(tags, value))

\* part_005:14-27; existing is a list of strings, generated a list of values
mergeTags(existing, generated, replaceTags) ==
    LET pool == IF replaceTags THEN generated
                ELSE [i \in 1..Len(existing) |-> Str(existing[i])] \o generated
    IN Slice(mergeLoop(pool, 1, <<>>), TagCap)

\* a text: the first len characters of the text named src; '' has no source
Text(src, len) == [src |-> IF len = 0 THEN "none" ELSE src, len |-> len]

\* String.prototype.slice(0, n)
slice(text, n) == Text(text.src, IF text.len < n THEN text.len ELSE n)

\* part_005:45-65: the payload processProduct sends to updateProduct
payloadOf(a) ==
    LET existingTags == existingTagsOf(a.tags)
        generated == IF a.clsTags.type = "array" THEN a.clsTags.a ELSE <<>>
        mergedTags == mergeTags(existingTags, generated, a.replaceTags)
        nextSeoTitle == slice(a.clsTitle, TitleCap)
        nextSeoDescription == slice(a.clsDescription, DescriptionCap)
        needsTitle == needsSeoTitle(a.replaceSeo, a.clsTitle.len > 0, a.curTitle.len)
        needsDescription == needsSeoDescription(a.replaceSeo, a.clsDescription.len > 0,
                                                a.curDescription.len)
    IN [mergedTags |-> mergedTags,
        tags |-> join(mergedTags),
        metafields_global_title_tag |->
            IF needsTitle THEN nextSeoTitle ELSE a.curTitle,
        metafields_global_description_tag |->
            IF needsDescription THEN nextSeoDescription ELSE a.curDescription]

\* n pairwise distinct tags with the given prefix
Bulk(prefix, n) == [i \in 1..n |-> <<prefix \o ToString(i)>>]

\* the example of the tag merge: existing tags, new tags, merged tags
ExampleExisting == Str(<<"Gift", ",", " ", "gift", ",", " ", "Serum">>)
ExampleGenerated == Arr(<<Str(<<"serum">>), Str(<<"Brightening">>)>>)
ExampleMerged == <<(<<"Gift">>), (<<"Serum">>), (<<"Brightening">>)>>

\* product.tags as the remote returns it: a comma separated string, or absent
ProductTags ==
    {Undef,
     ExampleExisting,
     Str(<<"Serum", ",", ",", " ", ",", "Gift">>)}
    \cup {Str(join(Bulk("e", n))) : n \in {MaxTags - 3, MaxTags - 1, MaxTags}}

\* classification.tags: a list of values, or absent
ClassificationTags ==
    {Undef,
     Arr(<<>>),
     ExampleGenerated,
     Arr(<<Str(<<" ", "Gift", " ">>), Undef, Num(0), Str(<<" ">>), Str(<<>>), Num(7),
           Str(<<"SERUM">>), Str(<<"7">>)>>)}
    \cup {Arr([i \in 1..n |-> Str(Bulk("g", n)[i])]) : n \in {3, MaxTags}}

\* lengths of the SEO title / description the classification carries
ClsTitleLens == {0, 60, TitleCap, TitleCap + 1}
ClsDescriptionLens == {0, DescriptionCap, DescriptionCap + 1}

NoArgs == [tags |-> Undef, clsTags |-> Undef, replaceTags |-> FALSE, replaceSeo |-> FALSE,
           curTitle |-> Text("none", 0), clsTitle |-> Text("none", 0),
           curDescription |-> Text("none", 0), clsDescription |-> Text("none", 0)]

NoPayload == [mergedTags |-> <<>>, tags |-> <<>>,
              metafields_global_title_tag |-> Text("none", 0),
              metafields_global_description_tag |-> Text("none", 0)]

PayIdle ==
    /\ payArgs = NoArgs
    /\ payload = NoPayload
    /\ payPc = "idle"

\* the inputs drawn: every tag input with one SEO input, and one tag input with
\* every SEO input (the two halves of the payload do not read each other's fields)
TagArgs ==
    {[NoArgs EXCEPT !.tags = t, !.clsTags = g, !.replaceTags = r,
                    !.curTitle = Text("current", 50),
                    !.clsTitle = Text("classification", 60)] :
        t \in ProductTags, g \in ClassificationTags, r \in BOOLEAN}

SeoArgs ==
    [tags : {ExampleExisting}, clsTags : {ExampleGenerated},
     replaceTags : {FALSE}, replaceSeo : BOOLEAN,
     curTitle : {Text("current", n) : n \in TitleLens},
     clsTitle : {Text("classification", n) : n \in ClsTitleLens},
     curDescription : {Text("current", n) : n \in DescLens},
     clsDescription : {Text("classification", n) : n \in ClsDescriptionLens}]

PayInit ==
    /\ payArgs \in TagArgs \cup SeoArgs
    /\ payload = NoPayload
    /\ payPc = "start"

\* part_005:45-65
buildPayload ==
    /\ payPc = "start"
    /\ payload' = payloadOf(payArgs)
    /\ payPc' = "built"
    /\ UNCHANGED payArgs
    /\ UNCHANGED payRest

PayNext == buildPayload

-----------------------------------------------------------------------------
(* Command handler: src/lib/mapping.js (lib/commands.js) lines 402-471.     *)
(* A command is an element of the request's commands array: an object with  *)
(* an action and params, or the JSON null.  What a command does to the      *)
(* classifier, the remote API, the rule store, the mapping cache and the    *)
(* job table is recorded per command as a set of effect kinds.              *)

\* longest batch of commands a request carries
MaxCommands == 2

\* lib/mapping.js:405-427: the actions executeCommand dispatches
SupportedActions ==
    {"backfill", "reprocess_product", "manual_set", "update_seo", "preview", "list_rules",
     "add_rule", "remove_rule", "refresh_rules", "job_status", "list_jobs"}

\* an action executeCommand does not know
Unsupported == "archive_product"

\* "classifier": categorizer.categorize invoked; "remote": a call to the remote API;
\* "store": the mapping file written; "reload": the mapping cache reloaded;
\* "job": a job record created and its runner started
EffectKinds == {"classifier", "remote", "store", "reload", "job"}

NullCommand == [json |-> "null", action |-> "", params |-> "missing"]

\* params: "given" when the params the action requires are present; "missing" when
\* the first one it requires (id, or category for add_rule) is absent, null or '';
\* "partial" when that one is given and no other: no category_path for manual_set,
\* none of seo_title, seo_description, body_html for update_seo
Commands ==
    [json : {"object"}, action : SupportedActions \cup {Unsupported},
     params : {"given", "missing", "partial"}]
    \cup {NullCommand}

Batches == UNION {[1..n -> Commands] : n \in 0..MaxCommands}

Done(effects) == [kind |-> "ok", effects |-> effects]
Fails(effects) == [kind |-> "error", effects |-> effects]

\* mutant: add_rule reads the rule store before it looks at its params
requiresParamsExceptAddRule(action) ==
    action \in {"reprocess_product", "manual_set", "update_seo", "preview", "job_status"}

\* lib/mapping.js:124-129, 228, 253, 290, 315, 340, 386: requireParam throws
\* before anything else is done
requiresParams(action) ==
    action \in {"reprocess_product", "manual_set", "update_seo", "preview", "add_rule",
                "job_status"}

\* lib/mapping.js:189-400: the ways each run* function ends and what it did until
\* then.  A product lookup, an update or a metafield write is a remote call whether
\* it succeeds or fails; processProduct invokes the classifier unless it skips or
\* is given the classification.
runOutcomes(action) ==
    CASE action = "backfill" -> {Done({"job"})}
      [] action = "reprocess_product" ->
            {Fails({}), Fails({"remote"}), Done({"remote"}),
             Done({"remote", "classifier"}), Fails({"remote", "classifier"})}
      [] action = "manual_set" -> {Fails({}), Fails({"remote"}), Done({"remote"})}
      [] action = "update_seo" -> {Fails({}), Fails({"remote"}), Done({"remote"})}
      [] action = "preview" ->
            {Fails({}), Fails({"remote"}), Done({"remote", "classifier"}),
             Fails({"remote", "classifier"})}
      [] action = "list_rules" -> {Done({}), Fails({})}
      [] action = "add_rule" -> {Fails({}), Done({"store", "reload"})}
      [] action = "remove_rule" -> {Fails({}), Done({"store", "reload"})}
      [] action = "refresh_rules" -> {Done({"reload"}), Fails({"reload"})}
      [] action = "job_status" -> {Done({}), Fails({})}
      [] action = "list_jobs" -> {Done({})}

\* lib/mapping.js:254 requireParam(params.category_path) precedes getProduct;
\* lines 291-303: update_seo throws on an empty payload before updateProduct
requiresMore(action) == action \in {"manual_set", "update_seo"}

\* lib/mapping.js:402-431
executeCommand(command) ==
    IF command.action \notin SupportedActions THEN {Fails({})}
    ELSE IF requiresParams(command.action) /\ command.params = "missing" THEN {Fails({})}
    ELSE IF requiresMore(command.action) /\ command.params = "partial" THEN {Fails({})}
    ELSE runOutcomes(command.action)

\* mutant: a backfill is not held back by dryRun
dryRunSkipsExceptBackfill(action) == action \notin {"preview", "list_rules", "backfill"}

\* lib/mapping.js:453: command.action !== 'preview' && command.action !== 'list_rules'
dryRunSkips(action) == action \notin {"preview", "list_rules"}

CmdIdle ==
    /\ batch = <<>>
    /\ dryRun = FALSE
    /\ cmdPc = "idle"
    /\ cmdIdx = 0
    /\ results = <<>>
    /\ caused = <<>>

\* lib/mapping.js:433-434: the request body; commands interpreted from a prompt
\* (lines 439-444) go through the same loop
CmdInit ==
    /\ batch \in Batches
    /\ dryRun \in BOOLEAN
    /\ cmdPc = "idle"
    /\ cmdIdx = 0
    /\ results = <<>>
    /\ caused = [i \in 1..Len(batch) |-> {}]

\* lib/mapping.js:446-450
NoCommands ==
    /\ cmdPc = "idle"
    /\ batch = <<>>
    /\ cmdPc' = "rejected"
    /\ UNCHANGED <<batch, dryRun, cmdIdx, results, caused>>
    /\ UNCHANGED cmdRest

\* lib/mapping.js:446-450
BeginBatch ==
    /\ cmdPc = "idle"
    /\ batch # <<>>
    /\ cmdPc' = "running"
    /\ cmdIdx' = 1
    /\ UNCHANGED <<batch, dryRun, results, caused>>
    /\ UNCHANGED cmdRest

\* lib/mapping.js:451-463, one turn of the loop for a command that is an object
RunCommand ==
    /\ cmdPc = "running"
    /\ cmdIdx <= Len(batch)
    /\ LET command == batch[cmdIdx]
       IN /\ command.json = "object"
          /\ IF dryRun /\ dryRunSkips(command.action)
               THEN /\ results' = Append(results, [action |-> command.action,
                                                   kind |-> "skipped",
                                                   reason |-> "dry_run"])
                    /\ UNCHANGED caused
               ELSE \E o \in executeCommand(command) :
                      /\ results' = Append(results, [action |-> command.action,
                                                     kind |-> o.kind,
                                                     reason |-> ""])
                      /\ caused' = [caused EXCEPT ![cmdIdx] = o.effects]
    /\ cmdIdx' = cmdIdx + 1
    /\ UNCHANGED <<batch, dryRun, cmdPc>>
    /\ UNCHANGED cmdRest

\* lib/mapping.js:453/403 and 461: reading command.action of null is a TypeError,
\* first inside the try and then again inside the catch, where nothing catches it
NullCommandThrows ==
    /\ cmdPc = "running"
    /\ cmdIdx <= Len(batch)
    /\ batch[cmdIdx].json = "null"
    /\ cmdPc' = "rejected"
    /\ UNCHANGED <<batch, dryRun, cmdIdx, results, caused>>
    /\ UNCHANGED cmdRest

\* lib/mapping.js:465-470
Respond ==
    /\ cmdPc = "running"
    /\ cmdIdx > Len(batch)
    /\ cmdPc' = "returned"
    /\ UNCHANGED <<batch, dryRun, cmdIdx, results, caused>>
    /\ UNCHANGED cmdRest

handleCommandRequest ==
    \/ NoCommands
    \/ BeginBatch
    \/ RunCommand
    \/ NullCommandThrows
    \/ Respond

CmdNext == handleCommandRequest

-----------------------------------------------------------------------------
(* Backfill jobs: src/lib/mapping.js (lib/commands.js) lines 189-225.       *)
(* A step is one synchronous turn of the code: runBackfill up to its        *)
(* return, and the runner from the settling of one await to the next await. *)
(* The products a fetch returns are numbered 1..n in listing order.         *)

\* number of backfill commands issued
MaxBackfills == 2
\* number of products the listing holds at most
MaxProducts == 3
\* last instant of the clock
MaxTime == 1

Backfills == 1..MaxBackfills

\* lib/mapping.js:197: job.limit is null when no limit is given
NoLimit == 0

\* params.limit as the request gives it
Limits == {Undef, Num(0), Num(1), Num(2), Str(<<"2">>), Str(<<"abc">>), Num(-1)}

\* Number(value) for the values drawn; NaN is falsy like null wherever job.limit is read
NumberOf(v) ==
    CASE v.type = "number" -> v.n
      [] v = Str(<<"2">>) -> 2
      [] OTHER -> NoLimit

\* lib/mapping.js:197: limit ? Number(limit) : null
limitOf(v) == IF Truthy(v) THEN NumberOf(v) ELSE NoLimit

\* messages of the errors a fetch or processProduct throws
Messages == {"", "Request failed with status code 500"}

NoJob == [status |-> "absent", limit |-> NoLimit, startedAt |-> Unset,
          finishedAt |-> Unset, processed |-> Unset, error |-> ""]

\* mutant: the record starts as queued
newJobQueued(v, t) ==
    [status |-> "queued", limit |-> limitOf(v), startedAt |-> t,
     finishedAt |-> Unset, processed |-> Unset, error |-> ""]

\* lib/mapping.js:192-199
newJob(v, t) ==
    [status |-> "running", limit |-> limitOf(v), startedAt |-> t,
     finishedAt |-> Unset, processed |-> Unset, error |-> ""]

\* mutant: the end of the loop records the result and leaves the status as it is
completedStillRunning(job, t, n) ==
    [job EXCEPT !.processed = n]

\* lib/mapping.js:211-213
completed(job, t, n) ==
    [job EXCEPT !.status = "completed", !.finishedAt = t, !.processed = n]

\* mutant: the catch block marks the job as cancelled
failedAsCancelled(job, t, message) ==
    [job EXCEPT !.status = "cancelled", !.finishedAt = t,
                !.error = IF message # "" THEN message ELSE "Unknown error"]

\* lib/mapping.js:215-217
failed(job, t, message) ==
    [job EXCEPT !.status = "failed", !.finishedAt = t,
                !.error = IF message # "" THEN message ELSE "Unknown error"]

\* mutant: the loop stops one product late
limitReachedLate(limit, n) == limit # NoLimit /\ n > limit

\* lib/mapping.js:207: job.limit && processed >= job.limit
limitReached(limit, n) == limit # NoLimit /\ n >= limit

\* lib/mapping.js:395: params.limit ? Number(params.limit) : 10
DefaultListLimit == 10

\* params.limit as a list_jobs request gives it
ListLimits == {Undef, Num(0), Num(1), Num(-1), Str(<<"2">>)}

\* lib/mapping.js:395, 398: the number of entries kept, Math.max(limit, 1)
listLimitOf(v) == Max({IF Truthy(v) THEN NumberOf(v) ELSE DefaultListLimit, 1})

\* lib/mapping.js:396: Array.from(jobs.values()), the jobs in insertion order
\* (the model's job numbers are the order of insertion)
jobValues == SelectSeq([i \in 1..MaxBackfills |-> i], LAMBDA i : jobs[i] # NoJob)

\* lib/mapping.js:397: the comparator (b.startedAt).localeCompare(a.startedAt) puts
\* a before b when a started later; startedAt is an ISO-8601 UTC string of fixed
\* width, which compares as the instant it names
startsLater(a, b) == jobs[a].startedAt > jobs[b].startedAt

\* Array.prototype.sort is stable: j goes behind every entry that does not
\* start earlier than it
insertJob(sorted, j) ==
    LET ahead == SelectSeq(sorted, LAMBDA a : ~startsLater(j, a))
        behind == SelectSeq(sorted, LAMBDA a : startsLater(j, a))
    IN ahead \o <<j>> \o behind

RECURSIVE sortEntries(_, _)
sortEntries(entries, sorted) ==
    IF entries = <<>> THEN sorted
    ELSE sortEntries(Tail(entries), insertJob(sorted, Head(entries)))

\* lib/mapping.js:394-400
runListJobs(v) ==
    LET entries == sortEntries(jobValues, <<>>)
    IN Slice(entries, listLimitOf(v))

NoList == [ids |-> <<>>, of |-> {}]

\* runBackfill has not returned
NotReturned == [job |-> NoJob, rpc |-> "none", handed |-> <<>>]

JobsIdle ==
    /\ jobs = [j \in Backfills |-> NoJob]
    /\ rpc = [j \in Backfills |-> "none"]
    /\ products = [j \in Backfills |-> 0]
    /\ processed = [j \in Backfills |-> 0]
    /\ handed = [j \in Backfills |-> <<>>]
    /\ settled = [j \in Backfills |-> 0]
    /\ raised = [j \in Backfills |-> "none"]
    /\ atReturn = [j \in Backfills |-> NotReturned]
    /\ clock = 0
    /\ listed = NoList

\* lib/mapping.js:146: the job table is created empty
JobsInit == JobsIdle

\* lib/mapping.js:206-213, the turn of the runner that follows a settled await with
\* n products processed: the next product is handed to processProduct, or the loop
\* ends and the job completes
continue(j, n) ==
    IF n < products'[j] /\ ~limitReached(jobs[j].limit, n)
      THEN /\ handed' = [handed EXCEPT ![j] = Append(@, n + 1)]
           /\ rpc' = [rpc EXCEPT ![j] = "processing"]
           /\ UNCHANGED jobs
      ELSE /\ jobs' = [jobs EXCEPT ![j] = completed(@, clock, n)]
           /\ rpc' = [rpc EXCEPT ![j] = "ended"]
           /\ UNCHANGED handed

\* lib/mapping.js:189-225: runBackfill up to its return; the runner is started and
\* runs up to its first await, the fetch of the products
runBackfill(j) ==
    /\ jobs[j] = NoJob
    /\ \A i \in 1..(j - 1) : jobs[i] # NoJob
    /\ \E v \in Limits : jobs' = [jobs EXCEPT ![j] = newJob(v, clock)]
    /\ rpc' = [rpc EXCEPT ![j] = "fetching"]
    /\ atReturn' = [atReturn EXCEPT ![j] = [job |-> jobs'[j], rpc |-> rpc'[j],
                                            handed |-> handed[j]]]
    /\ UNCHANGED <<products, processed, handed, settled, raised, clock>>
    /\ UNCHANGED listed
    /\ UNCHANGED jobRest

\* lib/mapping.js:204-208: getAllProducts resolves with n products
FetchReturns(j) ==
    /\ rpc[j] = "fetching"
    /\ \E n \in 0..MaxProducts : products' = [products EXCEPT ![j] = n]
    /\ continue(j, 0)
    /\ UNCHANGED <<processed, settled, raised, atReturn, clock>>
    /\ UNCHANGED listed
    /\ UNCHANGED jobRest

\* mutant: a failed fetch fails every job that is running
FetchThrowsHaltsQueue(j) ==
    /\ rpc[j] = "fetching"
    /\ \E message \in Messages :
         jobs' = [k \in Backfills |->
                    IF jobs[k].status = "running" THEN failed(jobs[k], clock, message)
                    ELSE jobs[k]]
    /\ rpc' = [k \in Backfills |-> IF jobs[k].status = "running" THEN "ended" ELSE rpc[k]]
    /\ raised' = [k \in Backfills |-> IF jobs[k].status = "running" THEN "fetch"
                                       ELSE raised[k]]
    /\ UNCHANGED <<products, processed, handed, settled, atReturn, clock>>
    /\ UNCHANGED listed
    /\ UNCHANGED jobRest

\* lib/mapping.js:204, 214-218: getAllProducts rejects
FetchThrows(j) ==
    /\ rpc[j] = "fetching"
    /\ \E message \in Messages : jobs' = [jobs EXCEPT ![j] = failed(@, clock, message)]
    /\ rpc' = [rpc EXCEPT ![j] = "ended"]
    /\ raised' = [raised EXCEPT ![j] = "fetch"]
    /\ UNCHANGED <<products, processed, handed, settled, atReturn, clock>>
    /\ UNCHANGED listed
    /\ UNCHANGED jobRest

\* lib/mapping.js:208-213: processProduct resolves (processed, skipped or nothing done)
ProcessReturns(j) ==
    /\ rpc[j] = "processing"
    /\ processed' = [processed EXCEPT ![j] = @ + 1]
    /\ settled' = [settled EXCEPT ![j] = @ + 1]
    /\ UNCHANGED products
    /\ continue(j, processed[j] + 1)
    /\ UNCHANGED <<raised, atReturn, clock>>
    /\ UNCHANGED listed
    /\ UNCHANGED jobRest

\* mutant: the error of one product is swallowed and the loop goes on
ProcessThrowsSwallowed(j) ==
    /\ rpc[j] = "processing"
    /\ processed' = [processed EXCEPT ![j] = @ + 1]
    /\ settled' = [settled EXCEPT ![j] = @ + 1]
    /\ raised' = [raised EXCEPT ![j] = "process"]
    /\ UNCHANGED products
    /\ continue(j, processed[j] + 1)
    /\ UNCHANGED <<atReturn, clock>>
    /\ UNCHANGED listed
    /\ UNCHANGED jobRest

\* lib/mapping.js:208, 214-218 and part_005:94-97: processProduct rethrows its error
ProcessThrows(j) ==
    /\ rpc[j] = "processing"
    /\ \E message \in Messages : jobs' = [jobs EXCEPT ![j] = failed(@, clock, message)]
    /\ rpc' = [rpc EXCEPT ![j] = "ended"]
    /\ settled' = [settled EXCEPT ![j] = @ + 1]
    /\ raised' = [raised EXCEPT ![j] = "process"]
    /\ UNCHANGED <<products, processed, handed, atReturn, clock>>
    /\ UNCHANGED listed
    /\ UNCHANGED jobRest

\* lib/mapping.js:394-400, 427: a list_jobs command
ListJobs ==
    /\ \E v \in ListLimits :
         listed' = [ids |-> runListJobs(v),
                    of |-> {j \in Backfills : jobs[j] # NoJob}]
    /\ UNCHANGED <<jobs, rpc, products, processed, handed, settled, raised, atReturn,
                   clock>>
    /\ UNCHANGED jobRest

\* time passes
Tick ==
    /\ clock < MaxTime
    /\ clock' = clock + 1
    /\ UNCHANGED <<jobs, rpc, products, processed, handed, settled, raised, atReturn>>
    /\ UNCHANGED listed
    /\ UNCHANGED jobRest

JobsNext ==
    \/ \E j \in Backfills : runBackfill(j)
    \/ \E j \in Backfills : FetchReturns(j)
    \/ \E j \in Backfills : FetchThrows(j)
    \/ \E j \in Backfills : ProcessReturns(j)
    \/ \E j \in Backfills : ProcessThrows(j)
    \/ ListJobs
    \/ Tick

-----------------------------------------------------------------------------
(* Webhook handlers: src/unnamed/part_003 lines 18-27, 41-73 and            *)
(* src/server.js lines 393-399, 559-571, with the processor of              *)
(* src/src/processor.js.  A signature is a string of characters; the HMAC   *)
(* of a body under a key is a string of two characters that names both.     *)

\* the signing secret held by the server and a key it does not hold
HeldKey == "k"
ForeignKey == "x"

\* request bodies: two product documents and a text that is no JSON
Bodies == {"p", "q", "t"}
IsJson(body) == body \in {"p", "q"}

\* crypto.createHmac('sha256', key).update(body).digest('base64')
digest(key, body) == <<key, body>>

\* crypto.timingSafeEqual: a RangeError when the lengths differ, else equality
timingSafeEqual(a, b) ==
    IF Len(a) # Len(b) THEN "throws" ELSE IF a = b THEN "true" ELSE "false"

\* mutant: a signature of another length is let through
comparePermissive(hmac, expected) ==
    IF timingSafeEqual(hmac, expected) = "false" THEN "false" ELSE "true"

\* part_003:68-72, server.js:397-398: try { return timingSafeEqual(..) } catch { return false }
compare(hmac, expected) ==
    IF timingSafeEqual(hmac, expected) = "true" THEN "true" ELSE "false"

\* part_003:59-73 (guarded: lines 60-63 skip the verification when no secret is
\* configured) and server.js:393-399 (not guarded).  createHmac throws a TypeError
\* for an undefined key, update for an undefined rawBody; both are outside the try.
verifyShopifyHmac(guarded, secretSet, r) ==
    IF guarded /\ ~secretSet THEN "true"
    ELSE IF ~secretSet \/ ~r.topic THEN "throws"
    ELSE compare(r.hmac, digest(HeldKey, r.body))

\* the signature headers a request may carry; a missing header reads as ''
Signatures(body) ==
    {<<>>, digest(HeldKey, body), digest(ForeignKey, body),
     digest(HeldKey, IF body = "p" THEN "q" ELSE "p"),
     <<HeldKey>>, digest(HeldKey, body) \o <<"=">>}

\* topic: the request carries x-shopify-topic, so the raw body is read (part_003:18-27)
Requests ==
    UNION {[topic : BOOLEAN, body : {b}, hmac : Signatures(b)] : b \in Bodies}

NoRequest == [topic |-> FALSE, body |-> "", hmac |-> <<>>]

HookIdle ==
    /\ guard = FALSE
    /\ secret = FALSE
    /\ hookReq = NoRequest
    /\ hookPc = "idle"
    /\ hookRes = "none"
    /\ hookWork = "none"
    /\ hookCaused = {}
    /\ workAtResponse = "none"

\* a request arrives at a server of either variant, with or without a secret
HookInit ==
    /\ guard \in BOOLEAN
    /\ secret \in BOOLEAN
    /\ hookReq \in Requests
    /\ hookPc = "received"
    /\ hookRes = "none"
    /\ hookWork = "none"
    /\ hookCaused = {}
    /\ workAtResponse = "none"

\* mutant: the handler awaits processProduct before it responds
DeliverAwaiting ==
    /\ hookPc = "received"
    /\ hookPc' = "handled"
    /\ LET verdict == verifyShopifyHmac(guard, secret, hookReq)
       IN IF verdict = "false"
            THEN hookRes' = "401" /\ UNCHANGED <<hookWork, hookCaused>>
            ELSE IF verdict = "throws" \/ ~hookReq.topic \/ ~IsJson(hookReq.body)
              THEN hookRes' = "none" /\ UNCHANGED <<hookWork, hookCaused>>
              ELSE /\ hookRes' = "200"
                   /\ hookWork' \in {"skipped", "processed", "failed"}
                   /\ hookCaused' = {"remote"}
    /\ workAtResponse' = hookWork'
    /\ UNCHANGED <<guard, secret, hookReq>>
    /\ UNCHANGED hookRest

\* part_003:41-46 / 48-53, the whole handler, which has no await: the signature is
\* verified, the body parsed, processProduct called without await (it runs up to
\* its first remote call, which waits in the limiter) and 200 sent.  An error
\* thrown by the verification or by JSON.parse rejects the handler: no response
\* is sent.
Deliver ==
    /\ hookPc = "received"
    /\ hookPc' = "handled"
    /\ LET verdict == verifyShopifyHmac(guard, secret, hookReq)
       IN IF verdict = "false"
            THEN hookRes' = "401" /\ UNCHANGED hookWork
            ELSE IF verdict = "throws" \/ ~hookReq.topic \/ ~IsJson(hookReq.body)
              THEN hookRes' = "none" /\ UNCHANGED hookWork
              ELSE hookRes' = "200" /\ hookWork' = "queued"
    /\ workAtResponse' = hookWork'
    /\ UNCHANGED <<guard, secret, hookReq, hookCaused>>
    /\ UNCHANGED hookRest

\* src/src/processor.js:28 and src/src/shopify.js: the limiter launches the first
\* remote call of the processing, the read of the stamp
WorkStarts ==
    /\ hookWork = "queued"
    /\ hookWork' = "running"
    /\ hookCaused' = hookCaused \cup {"remote"}
    /\ UNCHANGED <<guard, secret, hookReq, hookPc, hookRes, workAtResponse>>
    /\ UNCHANGED hookRest

\* src/src/processor.js:28-59: the processing ends: skipped, processed, or failed;
\* the catch logs the error and processProduct resolves all the same
WorkEnds ==
    /\ hookWork = "running"
    /\ \/ hookWork' = "skipped" /\ UNCHANGED hookCaused
       \/ hookWork' = "processed" /\ hookCaused' = hookCaused \cup {"classifier"}
       \/ hookWork' = "failed" /\ UNCHANGED hookCaused
       \/ hookWork' = "failed" /\ hookCaused' = hookCaused \cup {"classifier"}
    /\ UNCHANGED <<guard, secret, hookReq, hookPc, hookRes, workAtResponse>>
    /\ UNCHANGED hookRest

HookNext ==
    \/ Deliver
    \/ WorkStarts
    \/ WorkEnds

-----------------------------------------------------------------------------
(* Rule store: lib/mapping.js lines 8-21 (the cache), 131-140 (readMappingFile,  *)
(* writeMappingFile), 339-358 (runAddRule), 360-378 (runRemoveRule).  A rule is  *)
(* a number: 0 is a rule stored before any command, r the rule command r adds.   *)

Edits == 1..MaxEdits

StoredRule == 0

EditIdle ==
    /\ ruleFile = <<>>
    /\ ruleCache = [loaded |-> FALSE, rules |-> <<>>]
    /\ edPc = [r \in Edits |-> "idle"]
    /\ edKind = [r \in Edits |-> "none"]
    /\ edRead = [r \in Edits |-> <<>>]

\* mapping.json holds no rule or one; the cache is not loaded yet, or holds the file
EditInit ==
    /\ ruleFile \in {<<>>, <<StoredRule>>}
    /\ ruleCache \in {[loaded |-> FALSE, rules |-> <<>>], [loaded |-> TRUE, rules |-> ruleFile]}
    /\ edPc = [r \in Edits |-> "idle"]
    /\ edKind = [r \in Edits |-> "none"]
    /\ edRead = [r \in Edits |-> <<>>]

\* lib/mapping.js:10-16: loadMapping reads the file only when the cache is empty
loadMapping == IF ruleCache.loaded THEN ruleCache ELSE [loaded |-> TRUE, rules |-> ruleFile]

\* lib/mapping.js:18-21: refreshMapping empties the cache and loads the file
refreshMapping == [loaded |-> TRUE, rules |-> ruleFile]

\* lib/mapping.js:341-352: rules = [...mapping.rules]; rules.push(rule)
addRule(rules, r) == Append(rules, r)

\* lib/mapping.js:362-372: the rules whose name and category are not the target's
removeRule(rules, named) == SelectSeq(rules, LAMBDA x : x # named)

\* lib/mapping.js:339-341 / 360-361: the command starts and awaits readMappingFile
EditBegins(r) ==
    /\ edPc[r] = "idle"
    /\ \E kind \in {"add_rule", "remove_rule"} : edKind' = [edKind EXCEPT ![r] = kind]
    /\ edPc' = [edPc EXCEPT ![r] = "reading"]
    /\ UNCHANGED <<ruleFile, ruleCache, edRead>>
    /\ UNCHANGED editRest

\* lib/mapping.js:131-134, 341-353 / 361-376: fs.readFile resolves with the file as
\* it is now; the command builds its list and awaits fs.writeFile, or remove_rule
\* finds nothing to remove and throws
EditReads(r) ==
    /\ edPc[r] = "reading"
    /\ edRead' = [edRead EXCEPT ![r] = ruleFile]
    /\ edPc' = [edPc EXCEPT ![r] =
                  IF edKind[r] = "remove_rule" /\ removeRule(ruleFile, StoredRule) = ruleFile
                    THEN "failed" ELSE "writing"]
    /\ UNCHANGED <<ruleFile, ruleCache, edKind>>
    /\ UNCHANGED editRest

\* lib/mapping.js:136-137: fs.writeFile replaces the file by the command's list
EditWrites(r) ==
    /\ edPc[r] = "writing"
    /\ ruleFile' = IF edKind[r] = "add_rule" THEN addRule(edRead[r], r)
                   ELSE removeRule(edRead[r], StoredRule)
    /\ edPc' = [edPc EXCEPT ![r] = "written"]
    /\ UNCHANGED <<ruleCache, edKind, edRead>>
    /\ UNCHANGED editRest

\* lib/mapping.js:138-139, 354-357: after the await, refreshMapping reloads the
\* cache from the file as it is now, and the command returns rule_added /
\* rule_removed
EditReturns(r) ==
    /\ edPc[r] = "written"
    /\ ruleCache' = refreshMapping
    /\ edPc' = [edPc EXCEPT ![r] = "returned"]
    /\ UNCHANGED <<ruleFile, edKind, edRead>>
    /\ UNCHANGED editRest

\* categorizer.js:12: a classification calls loadMapping
Classification ==
    /\ ruleCache' = loadMapping
    /\ ruleCache' # ruleCache
    /\ UNCHANGED <<ruleFile, edPc, edKind, edRead>>
    /\ UNCHANGED editRest

EditNext ==
    \/ \E r \in Edits : EditBegins(r)
    \/ \E r \in Edits : EditReads(r)
    \/ \E r \in Edits : EditWrites(r)
    \/ \E r \in Edits : EditReturns(r)
    \/ Classification

-----------------------------------------------------------------------------
(* One product on the remote: part_005:5-12 (alreadyProcessed, markProcessed),   *)
(* 41-47, 62, 80, 91 (processProduct), with the callers that hand it a product   *)
(* (scripts/backfill.js, lib/mapping.js:229 getProduct, the webhook body).  The   *)
(* remote gives the product a new updated_at on every update it receives.        *)

Runs == 1..MaxRuns

FirstRevision == 1

NoFetch == [tags |-> <<>>, updated_at |-> 0, force |-> FALSE, generated |-> <<>>,
            clean |-> FALSE]

\* the tags a classification carries
GeneratedTags == {<< <<"serum">> >>, << <<"cream">> >>}

\* the tags another actor adds in the admin
AdminTag == <<"sale">>

RemoteIdle ==
    /\ remote = [tags |-> <<>>, updated_at |-> FirstRevision, stamp |-> NoStamp]
    /\ runPc = [k \in Runs |-> "idle"]
    /\ fetched = [k \in Runs |-> NoFetch]
    /\ lost = {}
    /\ clean = FALSE
    /\ rewrote = {}

\* a product nobody has processed yet, with no tag or one
RemoteInit ==
    /\ remote \in [tags : {<<>>, << <<"gift">> >>}, updated_at : {FirstRevision},
                    stamp : {NoStamp}]
    /\ runPc = [k \in Runs |-> "idle"]
    /\ fetched = [k \in Runs |-> NoFetch]
    /\ lost = {}
    /\ clean = FALSE
    /\ rewrote = {}

\* the tags of a list, as a set
tagSet(list) == {list[i] : i \in 1..Len(list)}

\* the remote serves the tags as one comma separated string and parses the string
\* it receives the same way
servedTags(list) == join(list)
storedTags(str) == existingTagsOf(Str(str))

\* the remote applies an update to the product: every update gives it a new
\* updated_at
applyUpdate(tags) == [remote EXCEPT !.tags = tags, !.updated_at = @ + 1]

\* a caller hands processProduct the product as the remote served it (a webhook
\* body, a page of the listing, getProduct), with the options of the call
Fetch(k) ==
    /\ runPc[k] = "idle"
    /\ \E force \in BOOLEAN, generated \in GeneratedTags :
          fetched' = [fetched EXCEPT ![k] =
                        [tags |-> servedTags(remote.tags), updated_at |-> remote.updated_at,
                         force |-> force, generated |-> generated, clean |-> clean]]
    /\ runPc' = [runPc EXCEPT ![k] = "fetched"]
    /\ UNCHANGED <<remote, lost, clean, rewrote>>
    /\ UNCHANGED remoteRest

\* part_005:5-8, 41-45: the stamp is read from the remote and compared with the
\* updated_at of the product in hand
CheckRemoteStamp(k) ==
    /\ runPc[k] = "fetched"
    /\ runPc' = [runPc EXCEPT ![k] =
                   IF ~fetched[k].force /\ remote.stamp # NoStamp
                                        /\ remote.stamp = fetched[k].updated_at
                     THEN "skipped" ELSE "classified"]
    /\ UNCHANGED <<remote, fetched, lost, clean, rewrote>>
    /\ UNCHANGED remoteRest

\* part_005:46-47, 62, 80: the tags of the product in hand merged with the
\* classification's, sent as the product's tags
WriteTags(k) ==
    /\ runPc[k] = "classified"
    /\ remote.updated_at < MaxRevision
    /\ LET existingTags == existingTagsOf(Str(fetched[k].tags))
           generated == [i \in 1..Len(fetched[k].generated) |-> Str(fetched[k].generated[i])]
           mergedTags == mergeTags(existingTags, generated, FALSE)
       IN /\ remote' = applyUpdate(storedTags(join(mergedTags)))
          /\ lost' = lost \cup (tagSet(remote.tags) \ tagSet(remote'.tags))
    /\ rewrote' = IF fetched[k].clean /\ ~fetched[k].force THEN rewrote \cup {k} ELSE rewrote
    /\ runPc' = [runPc EXCEPT ![k] = "updated"]
    /\ UNCHANGED <<fetched, clean>>
    /\ UNCHANGED remoteRest

\* part_005:10-12, 91: the stamp becomes the updated_at of the product in hand
MarkRemote(k) ==
    /\ runPc[k] = "updated"
    /\ remote' = [remote EXCEPT !.stamp = fetched[k].updated_at]
    /\ runPc' = [runPc EXCEPT ![k] = "done"]
    /\ clean' = TRUE
    /\ UNCHANGED <<fetched, lost, rewrote>>
    /\ UNCHANGED remoteRest

\* another actor adds a tag to the product, or removes its tags
OtherEdit ==
    /\ remote.updated_at < MaxRevision
    /\ \E tags \in {Append(remote.tags, AdminTag), <<>>} :
          /\ tagSet(tags) # tagSet(remote.tags)
          /\ Len(tags) = Cardinality(tagSet(tags))
          /\ remote' = applyUpdate(tags)
    /\ clean' = FALSE
    /\ UNCHANGED <<runPc, fetched, lost, rewrote>>
    /\ UNCHANGED remoteRest

RemoteNext ==
    \/ \E k \in Runs : Fetch(k)
    \/ \E k \in Runs : CheckRemoteStamp(k)
    \/ \E k \in Runs : WriteTags(k)
    \/ \E k \in Runs : MarkRemote(k)
    \/ OtherEdit

-----------------------------------------------------------------------------
(* Commands that call the processor: lib/mapping.js:227-250 (runReprocess) and  *)
(* 252-287 (runManualSet), with the processor of part_005                       *)

\* params.force as a request may give it: absent, null, a boolean, a string, a number
ForceParams == {"absent", "null", "true", "false", "'true'", "1"}

\* mutant: a missing force means false
forceOfStrict(given) == given \in {"true", "'true'"}

\* lib/mapping.js:233-235: params.force === undefined || params.force === null
\*   ? true : params.force === true || params.force === 'true'
forceOf(given) ==
    IF given \in {"absent", "null"} THEN TRUE ELSE given \in {"true", "'true'"}

\* the force option the command passes to processProduct:
\* lib/mapping.js:236 { force } and 273-279 { ..., force: true, ... }
forceOption(command) ==
    IF command.action = "manual_set" THEN TRUE ELSE forceOf(command.force)

\* runManualSet does not read params.force
Invocations ==
    [action : {"reprocess_product"}, force : ForceParams]
    \cup {[action |-> "manual_set", force |-> "false"]}

\* the processor at the start of a command request
CommandInit ==
    /\ stamp \in {NoStamp} \cup Revs
    /\ pc = [c \in Calls |-> "idle"]
    /\ opt = [c \in Calls |-> NoOpt]
    /\ idx = [c \in Calls |-> 0]
    /\ checkRead = [c \in Calls |-> "unread"]
    /\ storedMatch = [c \in Calls |-> FALSE]
    /\ classified = [c \in Calls |-> FALSE]
    /\ wlog = [c \in Calls |-> <<>>]
    /\ result = [c \in Calls |-> "none"]
    /\ before = [c \in Calls |-> {}]
    /\ invoked \in Invocations

\* lib/mapping.js:229-236 / 260-279 and part_005:29-39: the command has fetched
\* the product (it has an id and a revision) and calls processProduct with its
\* options
CommandStart(c) ==
    /\ pc[c] = "idle"
    /\ \E r \in Revs :
         /\ opt' = [opt EXCEPT ![c] = [rev |-> r, force |-> forceOption(invoked)]]
         /\ goto(c, IF forceOption(invoked) THEN "classify" ELSE "check")
    /\ before' = [before EXCEPT ![c] = {d \in Calls : pc[d] = "done"}]
    /\ UNCHANGED <<stamp, idx, checkRead, storedMatch, classified, wlog, invoked>>
    /\ UNCHANGED procRest

CommandNext ==
    \E c \in Calls :
        \/ CommandStart(c)
        \/ CheckStamp(c)
        \/ Classify(c)
        \/ UpdateProduct(c)
        \/ SetBaseMetafield(c)
        \/ SetSeoTitle(c)
        \/ SetSeoDescription(c)
        \/ markProcessed(c)

-----------------------------------------------------------------------------
(* Specifications *)

\* the processor: concurrent and sequential processProduct invocations on one product
Init ==
    /\ ProcInit
    /\ LaneIdle
    /\ PagerInit
    /\ CatIdle
    /\ PayIdle
    /\ CmdIdle
    /\ JobsIdle
    /\ HookIdle
    /\ EditIdle
    /\ RemoteIdle

Spec == Init /\ [][ProcNext]_vars

\* the throttled client: producers submitting calls to schedule
InitLane ==
    /\ ProcIdle
    /\ LaneInit
    /\ PagerInit
    /\ CatIdle
    /\ PayIdle
    /\ CmdIdle
    /\ JobsIdle
    /\ HookIdle
    /\ EditIdle
    /\ RemoteIdle

SpecLane == InitLane /\ [][LaneNext]_vars

\* the pager: one getAllProducts call against a listing of the remote
InitPager ==
    /\ ProcIdle
    /\ LaneIdle
    /\ PagerInit
    /\ CatIdle
    /\ PayIdle
    /\ CmdIdle
    /\ JobsIdle
    /\ HookIdle
    /\ EditIdle
    /\ RemoteIdle

SpecPager == InitPager /\ [][PagerNext]_vars

\* the categorizer: one categorize call on a product under a rule store
InitCat ==
    /\ ProcIdle
    /\ LaneIdle
    /\ PagerInit
    /\ CatInit
    /\ PayIdle
    /\ CmdIdle
    /\ JobsIdle
    /\ HookIdle
    /\ EditIdle
    /\ RemoteIdle

SpecCat == InitCat /\ [][CatNext]_vars

\* the payload: processProduct's lines 45-65 applied to one product and classification
InitPayload ==
    /\ ProcIdle
    /\ LaneIdle
    /\ PagerInit
    /\ CatIdle
    /\ PayInit
    /\ CmdIdle
    /\ JobsIdle
    /\ HookIdle
    /\ EditIdle
    /\ RemoteIdle

SpecPayload == InitPayload /\ [][PayNext]_vars

\* the command handler: one request with a batch of commands
InitCmd ==
    /\ ProcIdle
    /\ LaneIdle
    /\ PagerInit
    /\ CatIdle
    /\ PayIdle
    /\ CmdInit
    /\ JobsIdle
    /\ HookIdle
    /\ EditIdle
    /\ RemoteIdle

SpecCmd == InitCmd /\ [][CmdNext]_vars

\* the backfill jobs: backfill commands and the runners they start
InitJobs ==
    /\ ProcIdle
    /\ LaneIdle
    /\ PagerInit
    /\ CatIdle
    /\ PayIdle
    /\ CmdIdle
    /\ JobsInit
    /\ HookIdle
    /\ EditIdle
    /\ RemoteIdle

SpecJobs == InitJobs /\ [][JobsNext]_vars

\* the processor called by reprocess_product and manual_set commands
InitCommand ==
    /\ CommandInit
    /\ LaneIdle
    /\ PagerInit
    /\ CatIdle
    /\ PayIdle
    /\ CmdIdle
    /\ JobsIdle
    /\ HookIdle
    /\ EditIdle
    /\ RemoteIdle

SpecCommand == InitCommand /\ [][CommandNext]_vars

\* one product on the remote and the calls that process it
InitRemote ==
    /\ ProcIdle
    /\ LaneIdle
    /\ PagerInit
    /\ CatIdle
    /\ PayIdle
    /\ CmdIdle
    /\ JobsIdle
    /\ HookIdle
    /\ EditIdle
    /\ RemoteInit

SpecRemote == InitRemote /\ [][RemoteNext]_vars

\* every call a runner awaits settles: the fetch of the products returns or fails,
\* and so does each processProduct call
RunnerFairness ==
    \A j \in Backfills :
        /\ WF_vars(FetchReturns(j) \/ FetchThrows(j))
        /\ WF_vars(ProcessReturns(j) \/ ProcessThrows(j))

SpecJobsLive == InitJobs /\ [][JobsNext]_vars /\ RunnerFairness

\* the rule store and the commands that edit it
InitEdit ==
    /\ ProcIdle
    /\ LaneIdle
    /\ PagerInit
    /\ CatIdle
    /\ PayIdle
    /\ CmdIdle
    /\ JobsIdle
    /\ HookIdle
    /\ EditInit
    /\ RemoteIdle

SpecEdit == InitEdit /\ [][EditNext]_vars

\* the throttled client with its clock
InitTimedLane ==
    /\ ProcIdle
    /\ TimedLaneInit
    /\ PagerInit
    /\ CatIdle
    /\ PayIdle
    /\ CmdIdle
    /\ JobsIdle
    /\ HookIdle
    /\ EditIdle
    /\ RemoteIdle

SpecTimedLane == InitTimedLane /\ [][TimedLaneNext]_vars

\* the webhook handler: one delivery and the processing it starts
InitHook ==
    /\ ProcIdle
    /\ LaneIdle
    /\ PagerInit
    /\ CatIdle
    /\ PayIdle
    /\ CmdIdle
    /\ JobsIdle
    /\ HookInit
    /\ EditIdle
    /\ RemoteIdle

SpecHook == InitHook /\ [][HookNext]_vars

-----------------------------------------------------------------------------
(* Properties of the processor *)

Range(s) == {s[i] : i \in 1..Len(s)}

Count(x, s) == Cardinality({i \in 1..Len(s) : s[i] = x})

\* the invocation ended by a throw out of the try block (neither of the returns)
Failed(c) == pc[c] = "done" /\ result[c] \notin {"noid", "skipped", "dryRun", "processed"}

\* b is a non-forced call for the same revision that started after a had finished
LaterSameRevision(a, b) ==
    /\ a # b /\ a \in before[b]
    /\ ~opt[b].force /\ opt[b].rev = opt[a].rev /\ opt[a].rev # 0

C2_WriteOrder ==
    \A c \in Calls :
        StampKey \in Range(wlog[c]) =>
            \E seo \in { <<>>, <<"seo_title">>, <<"seo_description">>,
                         <<"seo_title", "seo_description">> } :
                wlog[c] = <<"update", "category_path", "ai_tags", "lang", "source",
                            "method", "confidence">> \o seo \o <<StampKey>>

\* C2 witness: a call wrote the stamp after the update and all eight metafields
C2_Witness ==
    \E c \in Calls :
        /\ result[c] = "processed" /\ stamp = opt[c].rev
        /\ Len(wlog[c]) = 10

-----------------------------------------------------------------------------
(* Properties of the throttled client *)

InFlight == {j \in Jobs : jpc[j] \in {"attempt1", "attempt2"}}

\* C4: at every instant at most one operation submitted through the throttled
\* client is in flight, however many producers have submitted calls: at most one
\* call is between its launch by the limiter and its settlement, so at most one
\* attempt is outstanding.
C4_SingleLane ==
    /\ Cardinality(running) <= 1
    /\ Cardinality(InFlight) <= 1
    /\ InFlight \subseteq running

\* C4 witness: an operation is in flight while another producer's call waits
C4_Witness ==
    \E j \in Jobs :
        /\ jpc[j] = "attempt2"
        /\ Len(laneQueue) >= 1

\* C5: an operation that fails with status 429 or >= 500 is re-attempted exactly
\* once; no call attempts its operation more than twice; the outcome of the second
\* attempt, whatever it is, is the outcome of the call.
C5_BoundedRetry ==
    \A j \in Jobs :
        /\ attempts[j] <= 2
        /\ (first[j] = 429 \/ first[j] >= 500) =>
              /\ jpc[j] \in {"sleeping", "attempt2", "done"}
              /\ jpc[j] = "done" => (attempts[j] = 2 /\ second[j] # Unset
                                     /\ outcome[j] = second[j])

\* C5 witness: both attempts failed and the second failure reached the caller
C5_Witness ==
    \E j \in Jobs :
        /\ jpc[j] = "done"
        /\ first[j] = 429
        /\ second[j] = 500
        /\ outcome[j] = 500
        /\ attempts[j] = 2

\* C6: an operation that fails with a response status that is neither 429 nor
\* >= 500 is attempted exactly once and its error reaches the caller in the same
\* step, with no sleep.
C6_NoRetryOtherStatuses ==
    \A j \in Jobs :
        (first[j] >= 400 /\ first[j] # 429 /\ first[j] < 500) =>
            /\ jpc[j] = "done"
            /\ attempts[j] = 1
            /\ outcome[j] = first[j]
            /\ slept[j] = Unset
            /\ second[j] = Unset

\* C6 witness: two calls failed with 404 and 422 and are settled
C6_Witness ==
    /\ \A j \in Jobs : jpc[j] = "done" /\ attempts[j] = 1
    /\ {first[j] : j \in Jobs} = {404, 422}

-----------------------------------------------------------------------------
(* Properties of the pager *)

TargetChars == {"b", "x", "n", "p"}

\* the header carries a well-formed next link: a bracketed, non-empty target, a
\* semicolon, optional white space and rel="next"
WellFormedNext(h) ==
    \E i \in 1..Len(h) :
        /\ h[i] = "<"
        /\ \E j \in (i + 2)..(Len(h) - 2) :
              /\ h[j] = ">"
              /\ \A t \in (i + 1)..(j - 1) : h[t] \in TargetChars
              /\ h[j + 1] = ";"
              /\ \E k \in (j + 2)..Len(h) :
                    /\ h[k] = "N"
                    /\ \A t \in (j + 2)..(k - 1) : h[t] = " "

HasNext(page) == page.link.present /\ WellFormedNext(page.link.value)

RECURSIVE AllItems(_, _)
AllItems(l, n) == IF n = 0 THEN <<>> ELSE AllItems(l, n - 1) \o l[n].products

\* every page but the last carries the next link
OnlyFinalLacksNext(l) ==
    /\ \A i \in 1..(Len(l) - 1) : HasNext(l[i])
    /\ ~HasNext(l[Len(l)])

\* C7: the pager follows the next link of each response: the pages are served in
\* order, one per successful list call; it goes on after every response that
\* carries a well-formed next link and stops, without error, at the first response
\* that does not (header absent, empty or malformed); for a listing of N pages of
\* which only the last lacks the next link it returns after exactly N list calls
\* with the products of all N pages in page order.
C7_Pager ==
    /\ served = [i \in 1..Len(served) |-> i]
    /\ \A i \in 1..(Len(served) - 1) : HasNext(listing[served[i]])
    /\ (served # <<>> /\ ~HasNext(listing[served[Len(served)]])) =>
          (pgPc = "done" /\ listCalls = Len(served))
    /\ pgPc = "done" => (served # <<>> /\ ~HasNext(listing[served[Len(served)]])
                         /\ items = AllItems(listing, Len(served)))
    /\ (pgPc = "done" /\ OnlyFinalLacksNext(listing)) =>
          (listCalls = Len(listing) /\ items = AllItems(listing, Len(listing)))

\* C7 witness: a listing of three pages, the second linking both to the previous
\* and to the next page, the last with a malformed header, read to the end
C7_Witness ==
    /\ pgPc = "done"
    /\ Len(listing) = 3
    /\ OnlyFinalLacksNext(listing)
    /\ Len(listing[2].link.value) > 7
    /\ listing[3].link.value = <<"<", "b", "n", ">", " ", "N">>
    /\ listCalls = 3
    /\ items = <<11, 12, 21, 22, 31, 32>>

-----------------------------------------------------------------------------
(* Properties of the categorizer *)

Guessed == catPc \in {"asking", "done"} \/ (catPc = "thrown" /\ ~ruleThrew)

\* C8: the fallback model is invoked only when a model is configured and the
\* rule guess has confidence strictly below 0.8; when the rule confidence is
\* 0.8 or more the rule guess is returned unchanged and no model call is made.
C8_ConfidenceGate ==
    /\ modelCalls > 0 => (openai /\ Guessed /\ ruleGuess.confidence.n < 80)
    /\ (Guessed /\ ruleGuess.confidence.n >= 80) =>
          (catPc = "done" /\ catResult = ruleGuess /\ modelCalls = 0)
    /\ (Guessed /\ ~openai) => (catPc = "done" /\ catResult = ruleGuess /\ modelCalls = 0)

\* C8 witness: a model is configured and the rule guess has confidence exactly 0.8
C8_Witness ==
    /\ openai
    /\ catPc = "done"
    /\ ruleGuess.confidence = Num(80)
    /\ catResult = ruleGuess
    /\ modelCalls = 0

\* C9: when the model call fails or its answer cannot be parsed, categorize
\* returns the rule guess; for no model response does categorize raise an error.
C9_FallbackNeverThrows ==
    /\ (catPc = "done" /\ response.kind \in {"throws", "not_json", "json_null"}) =>
          catResult = ruleGuess
    /\ modelCalls > 0 => catPc # "thrown"

\* C10: ruleBasedCategorize raises no error for any product and any rule list the
\* rule store holds; when no rule matches it returns the catch-all result with the
\* configured fallback category.
C10_RuleClassifierNeverFails ==
    /\ ~ruleThrew
    /\ (Guessed /\ Matching(mapping, catProduct) = {}) =>
          /\ ruleGuess.method = "fallback"
          /\ ruleGuess.category_path = Or(mapping.fallback_category, DEFAULT_FALLBACK)

\* C13: the rules are tried in list order and the category, the extra tags and the
\* confidence of the rule classification come from the earliest rule of the list
\* that matches the product text; a later matching rule never decides the result
\* when an earlier rule matches.
C13_FirstMatchWins ==
    (Guessed /\ Matching(mapping, catProduct) # {}) =>
        \E i \in Matching(mapping, catProduct) :
            /\ \A j \in 1..(i - 1) : j \notin Matching(mapping, catProduct)
            /\ LET rule == mapping.rules[i]
               IN /\ ruleGuess.method = "rules"
                  /\ ruleGuess.category_path = Or(rule.category, DEFAULT_FALLBACK)
                  /\ ruleGuess.confidence = Or(rule.confidence, Num(DefaultRuleConfidence))
                  /\ ruleGuess.tags
                        = composeTags(catProduct, ruleGuess.category_path.s, rule.tags)
                  /\ \A t \in Range(rule.tags) : t \in Range(ruleGuess.tags)

\* two rules with different categories, tags and confidences match; the first decides
C13_Witness ==
    /\ Guessed
    /\ Matching(mapping, catProduct) = {1, 2}
    /\ mapping.rules[1].category # mapping.rules[2].category
    /\ mapping.rules[1].confidence = Num(80)
    /\ mapping.rules[2].confidence = Undef
    /\ ruleGuess.category_path = mapping.rules[1].category
    /\ ruleGuess.confidence = Num(80)
    /\ <<"Sale">> \in Range(ruleGuess.tags)
    /\ <<"Footwear">> \notin Range(ruleGuess.tags)

\* C14: every classification categorize returns, by the rule path, the catch-all or
\* the model path, has a category label that is not empty and a confidence between
\* 0 and 1 inclusive, for every rule list and every model response.
C14_ClassificationInvariant ==
    catPc = "done" =>
        /\ catResult.category_path.type = "string"
        /\ catResult.category_path.s # <<>>
        /\ catResult.confidence.type = "number"
        /\ catResult.confidence.n >= 0
        /\ catResult.confidence.n <= 100

\* the half of C14 that holds: the category label of a returned classification is
\* a string that is not empty
CategoryNeverEmpty ==
    catPc = "done" =>
        (catResult.category_path.type = "string" /\ catResult.category_path.s # <<>>)

-----------------------------------------------------------------------------
(* Properties of the payload *)

\* the existing tags followed by the classification's tags, each as the text it stands for
TagPool ==
    LET existing == existingTagsOf(payArgs.tags)
        generated == IF payArgs.clsTags.type = "array" THEN payArgs.clsTags.a ELSE <<>>
    IN existing \o [i \in 1..Len(generated) |-> tagValue(generated[i])]

\* the positions of the pool that hold a tag which is not blank and which no
\* earlier position holds in any casing
FirstOccurrences(pool) ==
    LET keys == [i \in 1..Len(pool) |-> toLowerCase(pool[i])]
    IN {i \in 1..Len(pool) : pool[i] # <<>> /\ \A j \in 1..(i - 1) : keys[j] # keys[i]}

\* C11: without replaceTags the merged tags are the existing tags followed by the
\* classification's tags, blanks dropped, of the tags that differ only by case the
\* first one kept as it is written and where it stands, and the list cut to its
\* first 25 entries; [Gift, gift, Serum] merged with [serum, Brightening] gives
\* [Gift, Serum, Brightening].
C11_TagMerge ==
    (payPc = "built" /\ ~payArgs.replaceTags) =>
        LET merged == payload.mergedTags
            pool == TagPool
            firsts == FirstOccurrences(pool)
            n == Cardinality(firsts)
        IN /\ Len(merged) = (IF n < TagCap THEN n ELSE TagCap)
           /\ \A i \in firsts :
                 LET k == Cardinality({j \in firsts : j <= i})
                 IN k <= TagCap => merged[k] = pool[i]
           /\ (payArgs.tags = ExampleExisting /\ payArgs.clsTags = ExampleGenerated)
                  => merged = ExampleMerged

C11_Witness ==
    /\ payPc = "built"
    /\ ~payArgs.replaceTags
    /\ payArgs.tags = ExampleExisting
    /\ payArgs.clsTags = ExampleGenerated
    /\ payload.mergedTags = ExampleMerged

\* the first n characters of a text, said without slice
Prefix(text, n) ==
    [src |-> IF text.len = 0 THEN "none" ELSE text.src,
     len |-> IF text.len <= n THEN text.len ELSE n]

\* C12 as stated: without replaceSeo an existing SEO title of 40 characters or more
\* is written back unchanged, and an empty or shorter one is replaced with the
\* classification's SEO title; the same for the description with threshold 80.
C12_SeoGatingAsStated ==
    (payPc = "built" /\ ~payArgs.replaceSeo) =>
        /\ payArgs.curTitle.len >= 40
              => payload.metafields_global_title_tag = payArgs.curTitle
        /\ payArgs.curTitle.len < 40
              => payload.metafields_global_title_tag = payArgs.clsTitle
        /\ payArgs.curDescription.len >= 80
              => payload.metafields_global_description_tag = payArgs.curDescription
        /\ payArgs.curDescription.len < 80
              => payload.metafields_global_description_tag = payArgs.clsDescription

\* C12 (amended): without replaceSeo an existing SEO title of 40 characters or more
\* is written back unchanged, and an empty or shorter one is replaced with the first
\* 70 characters of the classification's SEO title; the same for the description
\* with threshold 80 and the first 320 characters.
C12_SeoGating ==
    (payPc = "built" /\ ~payArgs.replaceSeo) =>
        /\ payArgs.curTitle.len >= 40
              => payload.metafields_global_title_tag = payArgs.curTitle
        /\ payArgs.curTitle.len < 40
              => payload.metafields_global_title_tag = Prefix(payArgs.clsTitle, 70)
        /\ payArgs.curDescription.len >= 80
              => payload.metafields_global_description_tag = payArgs.curDescription
        /\ payArgs.curDescription.len < 80
              => payload.metafields_global_description_tag
                     = Prefix(payArgs.clsDescription, 320)

\* a title of 40 characters kept while a description of 79 characters is replaced
\* by the cut classification text
C12_Witness ==
    /\ payPc = "built"
    /\ ~payArgs.replaceSeo
    /\ payArgs.curTitle.len = 40
    /\ payload.metafields_global_title_tag = payArgs.curTitle
    /\ payArgs.curDescription.len = 79
    /\ payArgs.clsDescription.len = 321
    /\ payload.metafields_global_description_tag = Text("classification", 320)

-----------------------------------------------------------------------------
(* Properties of the command handler *)

\* the result list holds one entry per command the loop has passed, in the order
\* of the batch, each with its command's action
EntriesFollowBatch ==
    cmdPc \in {"running", "returned"} =>
        /\ Len(results) = cmdIdx - 1
        /\ \A i \in 1..Len(results) : results[i].action = batch[i].action

\* a command with an unsupported action, when it is executed, gives an error entry
UnsupportedGivesError ==
    \A i \in 1..Len(results) :
        (batch[i].action \notin SupportedActions /\ results[i].kind # "skipped")
            => results[i].kind = "error"

\* C15: the commands of a batch are executed one after another in list order; a
\* command that fails (an unsupported action included) gives an error entry and
\* does not keep the commands after it from being executed; the result list has
\* exactly one entry per command, in the same order, each with that command's action.
C15_CommandIndependence ==
    /\ EntriesFollowBatch
    /\ UnsupportedGivesError
    /\ cmdPc = "returned" => Len(results) = Len(batch)
    /\ cmdPc = "rejected" => batch = <<>>

\* what holds of C15: for a batch whose commands are all objects
ObjectCommandsIndependent ==
    (\A i \in 1..Len(batch) : batch[i].json = "object") => C15_CommandIndependence

\* lib/mapping.js:156-164: the actions that change the remote, the rule store, the
\* mapping cache or the job table
MutatingActions ==
    {"backfill", "reprocess_product", "manual_set", "update_seo", "add_rule", "remove_rule",
     "refresh_rules"}

\* C16: when dryRun is set, every command with a mutating action gives a skipped
\* entry with reason dry_run and causes no classifier invocation, no remote call,
\* no write of the rule store and no job.
C16_DryRun ==
    dryRun =>
        \A i \in 1..Len(batch) :
            batch[i].action \in MutatingActions =>
                /\ caused[i] = {}
                /\ i <= Len(results) =>
                      (results[i].kind = "skipped" /\ results[i].reason = "dry_run")

\* a dry run in which a backfill with its params is skipped and a preview is executed
C16_Witness ==
    /\ dryRun
    /\ cmdPc = "returned"
    /\ Len(batch) = 2
    /\ batch[1].action = "backfill"
    /\ batch[2].action = "preview"
    /\ results[1] = [action |-> "backfill", kind |-> "skipped", reason |-> "dry_run"]
    /\ caused[1] = {}
    /\ caused[2] = {"remote", "classifier"}

-----------------------------------------------------------------------------
(* Properties of the backfill jobs *)

\* C17: the backfill command returns its job identifier before any product has
\* been fetched or processed; at the moment it returns, the job's record is in the
\* job table with status running; the work goes on after the return.
C17_DetachedEnqueue ==
    \A j \in Backfills :
        /\ jobs[j] # NoJob =>
              /\ atReturn[j].job.status = "running"
              /\ atReturn[j].job = [jobs[j] EXCEPT !.status = "running",
                                                   !.finishedAt = Unset,
                                                   !.processed = Unset, !.error = ""]
              /\ atReturn[j].rpc = "fetching"
              /\ atReturn[j].handed = <<>>
        /\ (rpc[j] \in {"processing", "ended"} \/ handed[j] # <<>>)
              => atReturn[j] # NotReturned

\* a job that had fetched and processed nothing when its command returned has
\* completed with all three products processed
C17_Witness ==
    \E j \in Backfills :
        /\ atReturn[j].job.status = "running"
        /\ atReturn[j].handed = <<>>
        /\ jobs[j].status = "completed"
        /\ jobs[j].processed = 3
        /\ handed[j] = <<1, 2, 3>>

\* the status changes a job's record may undergo in one step
StatusStep(j) ==
    \/ jobs'[j] = jobs[j]
    \/ jobs[j] = NoJob /\ jobs'[j].status = "running"
    \/ jobs[j].status = "running" /\ jobs'[j].status \in {"completed", "failed"}

\* C18: a job's status is always one of running, completed, failed; it changes only
\* from running to completed and from running to failed; completed and failed never
\* change again; a job is failed only because its fetch or the processing of a
\* product raised an error.
C18_StatusMachine ==
    /\ [](\A j \in Backfills :
             jobs[j] # NoJob =>
                /\ jobs[j].status \in {"running", "completed", "failed"}
                /\ jobs[j].status = "failed" => raised[j] \in {"fetch", "process"})
    /\ [][\A j \in Backfills : StatusStep(j)]_vars

\* one job has completed and the other has failed on a product
C18_Witness ==
    /\ jobs[1].status = "completed"
    /\ jobs[2].status = "failed"
    /\ raised[2] = "process"

\* min(L, N)
Least(a, b) == IF a < b THEN a ELSE b

\* C19: a job with a positive limit L over N fetched products hands exactly
\* min(L, N) products to the processor, in listing order and one at a time (the
\* next one only after the processing of the previous one has finished), and
\* completes with processed = min(L, N); without a limit it hands over all N.
C19_SequentialLimited ==
    \A j \in Backfills :
        /\ handed[j] = [k \in 1..Len(handed[j]) |-> k]
        /\ settled[j] <= Len(handed[j])
        /\ Len(handed[j]) <= settled[j] + 1
        /\ jobs[j].limit > 0 => Len(handed[j]) <= Least(jobs[j].limit, products[j])
        /\ (jobs[j].status = "completed" /\ jobs[j].limit > 0) =>
              /\ Len(handed[j]) = Least(jobs[j].limit, products[j])
              /\ jobs[j].processed = Least(jobs[j].limit, products[j])
        /\ (jobs[j].status = "completed" /\ jobs[j].limit = NoLimit) =>
              /\ Len(handed[j]) = products[j]
              /\ jobs[j].processed = products[j]

\* a job with limit 2 over three products has completed after the first two
C19_Witness ==
    \E j \in Backfills :
        /\ jobs[j].status = "completed"
        /\ jobs[j].limit = 2
        /\ products[j] = 3
        /\ handed[j] = <<1, 2>>
        /\ jobs[j].processed = 2

\* C20: when the fetch or the processing of a product raises, the job's status
\* becomes failed with the error recorded and a finish time set, and no later
\* product of that job is handed to the processor.
C20_StopsAtFirstError ==
    /\ [](\A j \in Backfills :
             raised[j] # "none" =>
                /\ jobs[j].status = "failed"
                /\ jobs[j].error # ""
                /\ jobs[j].finishedAt # Unset
                /\ jobs[j].finishedAt >= jobs[j].startedAt
                /\ rpc[j] = "ended"
                /\ raised[j] = "fetch" => handed[j] = <<>>
                /\ raised[j] = "process" => settled[j] = Len(handed[j]))
    /\ [][\A j \in Backfills : raised[j] # "none" => handed'[j] = handed[j]]_vars

\* a job without limit over three products has failed on the second: the third was
\* never handed over
C20_Witness ==
    \E j \in Backfills :
        /\ jobs[j].status = "failed"
        /\ jobs[j].limit = NoLimit
        /\ products[j] = 3
        /\ raised[j] = "process"
        /\ handed[j] = <<1, 2>>
        /\ jobs[j].error = "Unknown error"

\* the number of products a job is to hand over: all, or the first limit of them
Due(j) ==
    IF jobs[j].limit = NoLimit THEN products[j] ELSE Least(jobs[j].limit, products[j])

\* C21: when the processing of one product fails during a backfill, the failure is
\* recorded for that product and the remaining products of the batch are still
\* processed: a job whose fetch succeeded ends only after all its due products
\* were handed to the processor.
C21_BatchContinues ==
    \A j \in Backfills :
        (rpc[j] = "ended" /\ raised[j] # "fetch" /\ jobs[j].limit >= 0)
            => Len(handed[j]) = Due(j)


-----------------------------------------------------------------------------
(* Webhook properties (SpecHook) *)

\* the signature header is the HMAC of the raw body under the held secret
Authentic == secret /\ hookReq.hmac = digest(HeldKey, hookReq.body)

\* C22: a handled webhook request whose signature header does not equal the HMAC
\* of the raw body under the held secret (a missing header included) was answered
\* 401, started no processing and caused no classifier or remote call.
C22_WebhookAuthentication ==
    (hookPc = "handled" /\ ~Authentic)
        => (hookRes = "401" /\ hookWork = "none" /\ hookCaused = {})

\* What the handlers do guarantee: with a secret configured and the raw body
\* read, a request that is not authentic is answered 401 and starts nothing.
RejectsForgedWhenConfigured ==
    (hookPc = "handled" /\ secret /\ hookReq.topic /\ ~Authentic)
        => (hookRes = "401" /\ hookWork = "none" /\ hookCaused = {})

-----------------------------------------------------------------------------
(* Same-product race (Spec) *)

\* C24: nothing besides the stored stamp holds a non-forced call back: a call at
\* its check whose revision is not the stored stamp can pass the check, a call
\* past the check can reach the update, and a call at the update can perform
\* it, whatever the other calls for the same product are doing.
C24_OnlyTheStampExcludes ==
    \A c \in Calls :
        /\ (pc[c] = "check" /\ stamp # opt[c].rev)
              => ENABLED (CheckStamp(c) /\ pc'[c] = "classify")
        /\ pc[c] = "classify"
              => ENABLED (Classify(c) /\ pc'[c] = "update")
        /\ pc[c] = "update"
              => ENABLED (UpdateProduct(c) /\ wlog'[c] = <<"update">>)

\* two non-forced calls for the same revision both read the stamp, found no
\* match, and both performed the product update
C24_Witness ==
    \E c, d \in Calls :
        /\ c # d
        /\ ~opt[c].force /\ ~opt[d].force
        /\ opt[c].rev = opt[d].rev
        /\ checkRead[c] = "ok" /\ checkRead[d] = "ok"
        /\ ~storedMatch[c] /\ ~storedMatch[d]
        /\ "update" \in Range(wlog[c])
        /\ "update" \in Range(wlog[d])
        /\ stamp # opt[c].rev

-----------------------------------------------------------------------------
(* Validation of command params (SpecCmd) *)

\* the command lacks a param its action requires
Invalid(command) ==
    \/ /\ command.params = "missing"
       /\ command.action \in {"reprocess_product", "manual_set", "update_seo", "preview",
                               "job_status", "add_rule"}
    \/ /\ command.params = "partial"
       /\ command.action \in {"manual_set", "update_seo"}

\* C25: a command that lacks a required param has caused no remote call, no
\* rule-store write and nothing else when its entry is reported, and the entry is
\* an error (under dryRun the command is not run at all and the entry says so).
C25_ValidationFirst ==
    \A i \in 1..Len(results) :
        Invalid(batch[i]) =>
            /\ caused[i] = {}
            /\ results[i].kind =
                 IF dryRun /\ dryRunSkips(batch[i].action) THEN "skipped" ELSE "error"

\* every kind of invalid command has been run and reported as an error
C25_Witness ==
    /\ cmdPc = "returned"
    /\ Len(results) = 2
    /\ ~dryRun
    /\ batch[1].action = "update_seo" /\ batch[1].params = "partial"
    /\ batch[2].action = "add_rule" /\ batch[2].params = "missing"
    /\ results[1].kind = "error" /\ results[2].kind = "error"

-----------------------------------------------------------------------------
(* Timing of the throttled client (SpecTimedLane, SpecLane) *)

\* C26: any two successive attempts sent to the remote, first attempts and
\* re-attempts alike, are at least MinTime apart.
C26_RateCeiling ==
    \A i \in 1..(Len(sent) - 1) : sent[i + 1].at - sent[i].at >= MinTime

\* the i-th attempt sent is a call's first: its launch by the limiter
IsLaunch(i) == \A h \in 1..(i - 1) : sent[h].job # sent[i].job

\* What the limiter does guarantee: the launches of two jobs are at least
\* MinTime apart.
LaunchesSpaced ==
    \A i, k \in 1..Len(sent) :
        (i < k /\ IsLaunch(i) /\ IsLaunch(k)) => sent[k].at - sent[i].at >= MinTime

\* C27: a call whose first attempt threw with no response attached (a transport
\* error) has been attempted twice when it settles.
C27_TransportRetried ==
    \A j \in Jobs :
        (jpc[j] = "done" /\ first[j] = Transport) => attempts[j] = 2

\* when call j's re-attempt was sent: the time of its second entry in sent
retriedAt(j) ==
    LET mine == SelectSeq(sent, LAMBDA a : a.job = j) IN mine[2].at

\* C28: a call whose first attempt failed with 429 and retry-after d and whose
\* second attempt succeeded settled with the success after exactly two attempts,
\* and its second attempt was sent no earlier than d seconds after the first
\* failure, 2 seconds when the response carried no retry-after.
C28_RetryDelay ==
    \A j \in Jobs :
        (jpc[j] = "done" /\ first[j] = 429 /\ second[j] = Ok) =>
            /\ attempts[j] = 2
            /\ outcome[j] = Ok
            /\ retriedAt(j) - failedAt[j] >=
                 (IF hdr[j] = Unset THEN 2 ELSE hdr[j]) * MsPerSecond

\* a 429 with retry-after 1, the re-attempt sent exactly one second later, success
C28_Witness ==
    \E j \in Jobs :
        /\ jpc[j] = "done" /\ first[j] = 429 /\ hdr[j] = 1 /\ second[j] = Ok
        /\ outcome[j] = Ok
        /\ retriedAt(j) = failedAt[j] + MsPerSecond

-----------------------------------------------------------------------------
(* Backfilling of the model's output (SpecCat) *)

\* the model's response was parsed and used
Parsed == response.kind # "none" /\ ~askOpenAIIsNull(response)

CategoryMissing == ~Truthy(response.category_path) /\ ~Truthy(response.category)

TagsMissing ==
    CASE response.ai_tags.type = "array" -> response.ai_tags.a = <<>>
      [] response.ai_tags.type = "string" -> SplitComma(response.ai_tags.s) = <<>>
      [] OTHER -> TRUE

Keys(tags) == {toLowerCase(tags[i]) : i \in 1..Len(tags)}

\* C29 as stated: each of category, tags, SEO title and SEO description that the
\* model's parsed response lacks has, in the classification returned, the value
\* it has in the rule guess.
C29_BackfillAsStated ==
    (catPc = "done" /\ Parsed) =>
        /\ CategoryMissing => catResult.category_path = ruleGuess.category_path
        /\ TagsMissing => catResult.tags = ruleGuess.tags
        /\ ~Truthy(response.seo_title) => catResult.seo_title = ruleGuess.seo_title
        /\ ~Truthy(response.seo_description)
              => catResult.seo_description = ruleGuess.seo_description

\* C29: a category, SEO title or SEO description that the model's parsed response
\* lacks has the rule guess's value in the classification returned.  Tags the
\* response lacks are the rule guess's when the category is the rule guess's
\* too; with a category of the model they are composed anew from the rule
\* guess's tags: they are not empty and, short of the cap of 12, hold every tag
\* of the rule guess.
C29_Backfilling ==
    (catPc = "done" /\ Parsed) =>
        /\ CategoryMissing => catResult.category_path = ruleGuess.category_path
        /\ (TagsMissing /\ CategoryMissing) => catResult.tags = ruleGuess.tags
        /\ TagsMissing =>
              /\ catResult.tags # <<>>
              /\ Len(catResult.tags) < 12 => Keys(ruleGuess.tags) \subseteq Keys(catResult.tags)
        /\ ~Truthy(response.seo_title) => catResult.seo_title = ruleGuess.seo_title
        /\ ~Truthy(response.seo_description)
              => catResult.seo_description = ruleGuess.seo_description

\* the model gave a category and nothing else: the category returned is the
\* model's, the SEO title is the rule guess's, the tags are neither's
C29_Witness ==
    /\ catPc = "done"
    /\ response.kind = "object"
    /\ Truthy(response.category_path)
    /\ TagsMissing
    /\ ~Truthy(response.seo_title)
    /\ catResult.category_path = response.category_path
    /\ catResult.category_path # ruleGuess.category_path
    /\ catResult.seo_title = ruleGuess.seo_title
    /\ catResult.tags # ruleGuess.tags

-----------------------------------------------------------------------------
(* Job isolation (SpecJobs) *)

\* C30: the step in which a job fails changes nothing of any other job; and
\* while some job is failed, every other job that is running can take its next
\* step towards completion and the next job can be enqueued.
C30_JobIsolation ==
    /\ [][\A j \in Backfills :
             (jobs[j].status = "running" /\ jobs'[j].status = "failed") =>
                 \A k \in Backfills \ {j} :
                     /\ jobs'[k] = jobs[k]
                     /\ rpc'[k] = rpc[k]
                     /\ handed'[k] = handed[k]
                     /\ processed'[k] = processed[k]]_vars
    /\ [](\A j \in Backfills : \A k \in Backfills \ {j} :
             jobs[j].status = "failed" =>
                 /\ rpc[k] = "fetching" => ENABLED FetchReturns(k)
                 /\ rpc[k] = "processing" => ENABLED ProcessReturns(k)
                 /\ (jobs[k] = NoJob /\ \A i \in 1..(k - 1) : jobs[i] # NoJob)
                       => ENABLED runBackfill(k))

\* a job enqueued after another job had failed has processed products and completed
C30_Witness ==
    \E j, k \in Backfills :
        /\ jobs[j].status = "failed"
        /\ jobs[k].status = "completed"
        /\ jobs[k].startedAt > jobs[j].finishedAt
        /\ jobs[k].processed > 0

-----------------------------------------------------------------------------
(* Job listing (SpecJobs) *)

\* C31: in the list list_jobs returned no job was enqueued earlier than a job
\* that appears after it, and every job the limit left out was enqueued no later
\* than every job returned (jobs are numbered in the order they were enqueued).
C31_MostRecentFirst ==
    /\ \A a, b \in 1..Len(listed.ids) : a < b => listed.ids[a] > listed.ids[b]
    /\ \A o \in listed.of \ Range(listed.ids) :
          \A r \in Range(listed.ids) : o < r

\* What list_jobs does guarantee: no job returned started at an earlier clock
\* value than a job that appears after it or than a job left out.
OrderedByStartTime ==
    /\ \A a, b \in 1..Len(listed.ids) :
          a < b => jobs[listed.ids[a]].startedAt >= jobs[listed.ids[b]].startedAt
    /\ \A o \in listed.of \ Range(listed.ids) :
          \A r \in Range(listed.ids) : jobs[o].startedAt <= jobs[r].startedAt

-----------------------------------------------------------------------------
(* Forced calls (SpecCommand) *)

\* the writes of a complete run, in order, without the conditional SEO writes
FullRun(log) ==
    /\ Len(log) >= Len(BaseKeys) + 2
    /\ log[1] = "update"
    /\ \A i \in 1..Len(BaseKeys) : log[i + 1] = BaseKeys[i]
    /\ log[Len(log)] = StampKey

\* a forced call does not read the stamp, is never skipped, and when it returns
\* processed it has made the whole sequence of writes
ForcedRunsInFull ==
    \A c \in Calls :
        (pc[c] # "idle" /\ opt[c].force) =>
            /\ checkRead[c] = "unread"
            /\ result[c] # "skipped"
            /\ result[c] = "processed" => (classified[c] \/ invoked.action = "manual_set")
            /\ result[c] = "processed" => FullRun(wlog[c])

-----------------------------------------------------------------------------
(* Rule store (SpecEdit) *)

\* the rules the next classification evaluates
EffectiveRules == loadMapping.rules

\* C33: once an add_rule command has returned rule_added, its rule is in the
\* persisted list and in the rules the next classification evaluates, behind all
\* rules stored before it (no command of the model removes an added rule).
C33_RuleStoreUpdate ==
    \A r \in Edits :
        (edPc[r] = "returned" /\ edKind[r] = "add_rule") =>
            /\ r \in Range(ruleFile)
            /\ r \in Range(EffectiveRules)
            /\ \A i \in 1..Len(ruleFile) :
                  (ruleFile[i] = r /\ StoredRule \in Range(ruleFile))
                      => \E h \in 1..(i - 1) : ruleFile[h] = StoredRule

\* What the commands do guarantee: at the moment an edit command returns, the
\* cache holds the persisted list.
ReturnRefreshesCache ==
    [][\A r \in Edits : (edPc[r] = "written" /\ edPc'[r] = "returned")
                           => ruleCache'.rules = ruleFile']_vars

-----------------------------------------------------------------------------
(* SEO fields of the payload, continued (SpecPayload) *)

StrongFieldsNeverEmptied ==
    payPc = "built" =>
        /\ (payArgs.curTitle.len >= 40) => (payload.metafields_global_title_tag.len > 0)
        /\ (payArgs.curDescription.len >= 80)
              => (payload.metafields_global_description_tag.len > 0)

-----------------------------------------------------------------------------
(* One product on the remote (SpecRemote) *)

\* C34: no process write (without replaceTags) removes a tag that is on the remote
\* product at the moment the write is applied, whatever the interleaving of the
\* process calls with each other and with the edits of other actors (the merged
\* lists of the model stay below the cap).
C34_NoRemoteTagLost == lost = {}

\* What a write does keep: every tag of the product as it was handed to the call.
HandedTagsKept ==
    [][\A k \in Runs : (runPc[k] = "classified" /\ runPc'[k] = "updated")
          => tagSet(existingTagsOf(Str(fetched[k].tags))) \subseteq tagSet(remote'.tags)]_vars

\* C36: a non-forced call that was handed the product after a call had completed,
\* with no edit by another actor since, performs no remote write.
C36_Quiescence == rewrote = {}

\* Why no such call is skipped: the stamp is the updated_at the product had
\* before the processor's own update, so it is never the remote's current one.
StampTrailsRevision == remote.stamp # NoStamp => remote.stamp < remote.updated_at

-----------------------------------------------------------------------------
(* Backfill jobs under fair scheduling (SpecJobsLive) *)

\* C37: provided every awaited call settles, every enqueued backfill job
\* eventually leaves status running and is completed or failed, with its finish
\* time set.
C37_JobCompletion ==
    \A j \in Backfills :
        (jobs[j].status = "running")
            ~> (jobs[j].status \in {"completed", "failed"} /\ jobs[j].finishedAt # Unset)

C37_Witness ==
    \E j, k \in Backfills :
        /\ jobs[j].status = "completed" /\ jobs[j].finishedAt # Unset /\ settled[j] > 0
        /\ jobs[k].status = "failed" /\ jobs[k].finishedAt # Unset
        /\ atReturn[j].job.status = "running" /\ atReturn[k].job.status = "running"

-----------------------------------------------------------------------------
(* The lane during a retry (SpecTimedLane) *)

\* the call is between the failure of its first attempt and the end of its second
Retrying(j) == jpc[j] \in {"sleeping", "attempt2"}

\* C38: while a call waits out its retry delay, and until its second attempt has
\* finished, it is the one call in flight: no queued call is dispatched.
C38_RetryKeepsLane ==
    [][\A j \in Jobs : Retrying(j) =>
          \A k \in Jobs : ~(jpc[k] = "queued" /\ jpc'[k] = "attempt1")]_vars

\* a call is waiting out its delay while another call heads the queue and the
\* spacing since the last launch has passed: only the occupied lane holds it back
C38_Witness ==
    \E j, k \in Jobs :
        /\ jpc[j] = "sleeping" /\ ~reached(wakeAt[j])
        /\ laneQueue # <<>> /\ Head(laneQueue) = k
        /\ reached(nextStart)
        /\ first[j] \in {429, 500, 503}

-----------------------------------------------------------------------------
(* The stamp read that fails (Spec) *)

\* C39: a non-forced call whose read of the stamp fails neither returns skipped
\* nor raises at that point: its next step is the classification, also when the
\* stored stamp equals the product's revision.
C39_FailedReadProceeds ==
    [][\A c \in Calls :
          (pc[c] = "check" /\ pc'[c] # "check" /\ checkRead'[c] = "failed")
              => (pc'[c] = "classify" /\ result'[c] = result[c])]_vars

\* a call whose stamp read failed while the stamp equalled its revision has
\* classified the product, written it and completed
C39_Witness ==
    \E c \in Calls :
        /\ ~opt[c].force
        /\ checkRead[c] = "failed" /\ storedMatch[c]
        /\ classified[c]
        /\ "update" \in Range(wlog[c])
        /\ result[c] = "processed"

-----------------------------------------------------------------------------
(* Rules without a matcher (SpecCat) *)

\* the rule has neither a regex nor a non-empty keyword list
NoMatcher(rule) == ~Truthy(rule.regex) /\ rule.keywords = <<>>

\* rule i has no matcher and no rule before it matches the product
CatchAllAt(i) ==
    /\ NoMatcher(mapping.rules[i])
    /\ \A h \in 1..(i - 1) :
          ~(~ruleThrows(mapping.rules[h])
              /\ patternTest(mapping.rules[h], haystackOf(catProduct)))

\* C40: once a rule without matcher is in the list, every product not matched by
\* an earlier rule gets that rule's category, with confidence 0.92 when the rule
\* gives none, and neither a later rule nor the fallback model is used:
\* categorize does not raise, makes no model call, and returns the rule's result.
C40_CatchAllAsStated ==
    \A i \in 1..Len(mapping.rules) :
        CatchAllAt(i) =>
            /\ catPc # "thrown"
            /\ modelCalls = 0
            /\ catPc = "done" =>
                  /\ catResult.method = "rules"
                  /\ catResult.category_path = mapping.rules[i].category
                  /\ catResult.confidence
                        = Or(mapping.rules[i].confidence, Num(DefaultRuleConfidence))

\* What holds: whenever the rule classifier returns a guess for such a product,
\* the guess is that rule's, and no model is asked when the rule gives no
\* confidence.
CatchAllDecidesGuess ==
    \A i \in 1..Len(mapping.rules) :
        (CatchAllAt(i) /\ Guessed) =>
            /\ ruleGuess.method = "rules"
            /\ ruleGuess.category_path = mapping.rules[i].category
            /\ ruleGuess.confidence
                  = Or(mapping.rules[i].confidence, Num(DefaultRuleConfidence))
            /\ ~Truthy(mapping.rules[i].confidence) => modelCalls = 0


====
